---------------------------- MODULE Spec2Model ----------------------------
(***************************************************************************)
(* Quantum assembler of quantum-sim-rust: lexer, parser, executor and the  *)
(* quantum state layer (measure_vec, measure_partial_vec).                 *)
(*                                                                         *)
(* Representation.                                                         *)
(*  - A Rust String is a sequence of one-character strings.                *)
(*  - An amplitude (struct C, two f64) is modelled exactly as              *)
(*    (re + i*im) / sqrt(2)^k with integers re, im and k >= 0, kept in a   *)
(*    canonical form so that structural equality is numeric equality.      *)
(*    Floating-point rounding is not modelled.                             *)
(*  - A Matrix (Vec<Vec<C>>) is a sequence of rows.                        *)
(*  - A Result is a record with kind "Ok" or "Err"; a Rust panic (unwrap   *)
(*    of an Err, an index out of range, an assert) is kind "Panic".        *)
(*  - The f64 drawn by thread_rng().gen() is u / DrawGrid, u in 0..DrawGrid-1.*)
(***************************************************************************)
EXTENDS Integers, Sequences, FiniteSets, TLC

VARIABLES entry, input, pc, ast, ip, memory, result, sim

vars == <<entry, input, pc, ast, ip, memory, result, sim>>

(***************************************************************************)
(* Bounds of the model.                                                    *)
(***************************************************************************)
DrawGrid == 4
MaxProgLen == 2
MaxAmp == 1
MaxWordLen == 3
MaxLineWords == 5
MaxParseLines == 2
MaxR == 6
MaxN == 15
MaxSample == 4
MaxSamples == 3
PeriodGrid == 2
MaxDim == 2
MaxBase == 3

(***************************************************************************)
(* Results, panics.                                                        *)
(***************************************************************************)
Ok(v) == [kind |-> "Ok", val |-> v]
Err(e) == [kind |-> "Err", err |-> e]
Panic(c) == [kind |-> "Panic", cause |-> c]

SyntaxError(msg) == [variant |-> "SyntaxError", msg |-> msg]
NotImplemented == [variant |-> "NotImplemented"]
PanicMsg(msg) == [variant |-> "PanicMsg", msg |-> msg]

\* Result::unwrap: the Ok payload, or a panic that carries the Err payload.
unwrap(r) == IF r.kind = "Err" THEN Panic(r.err) ELSE r

Pow2(n) == 2 ^ n

Max(a, b) == IF a >= b THEN a ELSE b

(***************************************************************************)
(* Complex scalars.                                                        *)
(***************************************************************************)
CZero == [re |-> 0, im |-> 0, k |-> 0]
COne == [re |-> 1, im |-> 0, k |-> 0]
\* A value outside the modelled ring (a sum of amplitudes whose powers of
\* sqrt(2) differ by an odd number, or an angle with no exact cosine).
CUnrep == [re |-> 0, im |-> 0, k |-> -1]

RECURSIVE CNorm(_)
CNorm(c) ==
    IF c.k < 0 THEN CUnrep
    ELSE IF c.re = 0 /\ c.im = 0 THEN CZero
    ELSE IF c.k >= 2 /\ c.re % 2 = 0 /\ c.im % 2 = 0
         THEN CNorm([re |-> c.re \div 2, im |-> c.im \div 2, k |-> c.k - 2])
         ELSE c

\* c!(a): the real number a.
CReal(a) == CNorm([re |-> a, im |-> 0, k |-> 0])

C_add(x, y) ==
    IF x.k < 0 \/ y.k < 0 THEN CUnrep
    ELSE IF x = CZero THEN y
    ELSE IF y = CZero THEN x
    ELSE IF (x.k - y.k) % 2 # 0 THEN CUnrep
    ELSE LET K == Max(x.k, y.k)
             sx == Pow2((K - x.k) \div 2)
             sy == Pow2((K - y.k) \div 2)
         IN CNorm([re |-> x.re * sx + y.re * sy,
                   im |-> x.im * sx + y.im * sy, k |-> K])

C_mul(x, y) ==
    IF x.k < 0 \/ y.k < 0 THEN CUnrep
    ELSE CNorm([re |-> x.re * y.re + x.im * y.im * (-1),
                im |-> x.re * y.im + x.im * y.re,
                k |-> x.k + y.k])

C_conjugate(x) == [re |-> x.re, im |-> x.im * (-1), k |-> x.k]

\* modulus().powf(2.0) of every entry of a column, over the common
\* denominator sqrt(2)^(2*K) = 2^K: the integer (re^2 + im^2) * 2^(K - k).
ModSqScaled(x, K) == (x.re * x.re + x.im * x.im) * Pow2(K - x.k)

(***************************************************************************)
(* Dense matrix kernel.                                                    *)
(***************************************************************************)
Matrix_zero(rows, cols) == [i \in 1..rows |-> [j \in 1..cols |-> CZero]]

Matrix_set(m, row, col, value) ==
    [i \in 1..Len(m) |->
        [j \in 1..Len(m[i]) |-> IF i = row + 1 /\ j = col + 1 THEN value ELSE m[i][j]]]

Matrix_identity(n) ==
    [i \in 1..n |-> [j \in 1..n |-> IF i = j THEN COne ELSE CZero]]

size(m) == <<Len(m), Len(m[1])>>

is_vector(m) == Len(m[1]) = 1

transpose(m) == [j \in 1..Len(m[1]) |-> [i \in 1..Len(m) |-> m[i][j]]]

conjugate(m) == [i \in 1..Len(m) |-> [j \in 1..Len(m[1]) |-> C_conjugate(m[i][j])]]

adjoint(m) == transpose(conjugate(m))

scalar_mul(m, s) == [i \in 1..Len(m) |-> [j \in 1..Len(m[1]) |-> C_mul(m[i][j], s)]]

RECURSIVE DotRow(_, _, _, _, _)
\* The inner loop of multiply: data[i][j] accumulated over k = 1..n, in order.
DotRow(a, b, i, j, n) ==
    IF n = 0 THEN CZero
    ELSE C_add(DotRow(a, b, i, j, n - 1), C_mul(a[i][n], b[n][j]))

\* Matrix::multiply; the caller has checked the assert_eq on the inner dimension.
multiply(a, b) ==
    [i \in 1..Len(a) |-> [j \in 1..Len(b[1]) |-> DotRow(a, b, i, j, Len(a[1]))]]

MultiplyFails(a, b) == Len(a[1]) # Len(b)

MutTensorOtherOrder(a, b) ==
    LET rows == Len(a) * Len(b)
        cols == Len(a[1]) * Len(b[1])
        nr == Len(a)
        nc == Len(a[1])
    IN [i \in 1..rows |-> [j \in 1..cols |->
           C_mul(a[((i - 1) % nr) + 1][((j - 1) % nc) + 1],
                 b[((i - 1) \div nr) + 1][((j - 1) \div nc) + 1])]]

tensor(a, b) ==
    LET rows == Len(a) * Len(b)
        cols == Len(a[1]) * Len(b[1])
        nr == Len(b)
        nc == Len(b[1])
    IN [i \in 1..rows |-> [j \in 1..cols |->
           C_mul(a[((i - 1) \div nr) + 1][((j - 1) \div nc) + 1],
                 b[((i - 1) % nr) + 1][((j - 1) % nc) + 1])]]

is_hermitian(m) == m = adjoint(m)

\* self.clone() * adj == identity(rows)
is_unitary(m) == multiply(m, adjoint(m)) = Matrix_identity(Len(m))

\* impl Add: two assert_eq on the shapes; the result is allocated with the
\* row and column counts swapped and then indexed [i][j] over the rows and
\* columns of self, so a shape that is not square indexes out of bounds.
Matrix_add(a, b) ==
    IF Len(a) # Len(b) \/ Len(a[1]) # Len(b[1])
    THEN Panic(PanicMsg("assertion left == right failed"))
    ELSE IF Len(a) # Len(a[1])
    THEN Panic(PanicMsg("index out of bounds"))
    ELSE Ok([i \in 1..Len(a) |-> [j \in 1..Len(a[1]) |-> C_add(a[i][j], b[i][j])]])

(***************************************************************************)
(* Gate constructors.                                                      *)
(***************************************************************************)
InvSqrt2 == [re |-> 1, im |-> 0, k |-> 1]

hadamard ==
    scalar_mul(<< <<CReal(1), CReal(1)>>, <<CReal(1), CReal(-1)>> >>, InvSqrt2)

MutCnotLowControl ==
    << <<COne, CZero, CZero, CZero>>,
       <<CZero, CZero, CZero, COne>>,
       <<CZero, CZero, COne, CZero>>,
       <<CZero, COne, CZero, CZero>> >>

cnot ==
    << <<COne, CZero, CZero, CZero>>,
       <<CZero, COne, CZero, CZero>>,
       <<CZero, CZero, CZero, COne>>,
       <<CZero, CZero, COne, CZero>> >>

\* (cos(pi/d), sin(pi/d)) for the divisors whose value lies in the modelled ring.
CisPiOver(d) ==
    IF d = 1 THEN CReal(-1)
    ELSE IF d = 2 THEN [re |-> 0, im |-> 1, k |-> 0]
    ELSE IF d = 4 THEN [re |-> 1, im |-> 1, k |-> 1]
    ELSE CUnrep

\* phase_shift(PI / d)
phase_shift(d) == << <<COne, CZero>>, <<CZero, CisPiOver(d)>> >>

RECURSIVE min_bit_size_from(_, _)
min_bit_size_from(n, b) == IF Pow2(b) >= n + 1 THEN b ELSE min_bit_size_from(n, b + 1)

\* ((n + 1) as f64).log2().ceil()
min_bit_size(n) == min_bit_size_from(n, 0)

\* res starts at 1 and takes x rounds of res = (res * a) % n.  The rounds
\* are run as two halves whose results are multiplied modulo n, which keeps
\* the evaluation shallow and gives the same residue.
RECURSIVE mod_power(_, _, _)
mod_power(a, x, n) ==
    IF x = 0 THEN 1
    ELSE IF x = 1 THEN a % n
    ELSE (mod_power(a, x \div 2, n) * mod_power(a, x - x \div 2, n)) % n

RECURSIVE UfFill(_, _, _, _, _)
\* The loop of unitary_modular, i = 0 .. count-1, each step one Matrix::set.
UfFill(m, a, n, nrep, count) ==
    IF count = 0 THEN m
    ELSE LET i == count - 1
             prev == UfFill(m, a, n, nrep, count - 1)
             f == mod_power(a, i, n)
             sq == i * nrep
         IN Matrix_set(prev, sq + f, sq, COne)

unitary_modular(a, n) ==
    LET nbit == min_bit_size(n)
        mbit == nbit * 2
        qbit == nbit + mbit
    IN UfFill(Matrix_zero(Pow2(qbit), Pow2(qbit)), a, n, Pow2(nbit), Pow2(mbit))

\* c!(0.0, 1.0).pow(e): the imaginary unit to an integer power.
ImagUnitPow(e) ==
    IF e % 4 = 0 THEN [re |-> 1, im |-> 0, k |-> 0]
    ELSE IF e % 4 = 1 THEN [re |-> 0, im |-> 1, k |-> 0]
    ELSE IF e % 4 = 2 THEN [re |-> -1, im |-> 0, k |-> 0]
    ELSE [re |-> 0, im |-> -1, k |-> 0]

quantum_fourier(n) ==
    LET sz == Pow2(n)
        base == [re |-> 1, im |-> 0, k |-> n]
    IN [i \in 1..sz |-> [j \in 1..sz |-> C_mul(base, ImagUnitPow((i - 1) * (j - 1)))]]

(***************************************************************************)
(* Strings.                                                                *)
(***************************************************************************)
\* Characters of the words the lexer is tried on.
LexAlphabet == {"G", "_", "1", "-", "+", "'"}

Digits == {"0", "1", "2", "3", "4", "5", "6", "7", "8", "9"}

DigitVal(c) ==
    CASE c = "0" -> 0 [] c = "1" -> 1 [] c = "2" -> 2 [] c = "3" -> 3 [] c = "4" -> 4
      [] c = "5" -> 5 [] c = "6" -> 6 [] c = "7" -> 7 [] c = "8" -> 8 [] c = "9" -> 9

starts_with(s, prefix) ==
    Len(s) >= Len(prefix) /\ \A p \in 1..Len(prefix) : s[p] = prefix[p]

\* The slice s[from..to] of a String (from, to zero-based, to exclusive).
Slice(s, from, to) == [p \in 1..(to - from) |-> s[from + p]]

RECURSIVE DecValue(_, _)
\* The value of the first n characters of a run of decimal digits.
DecValue(s, n) == IF n = 0 THEN 0 ELSE DecValue(s, n - 1) * 10 + DigitVal(s[n])

\* str::parse::<i32>(): an optional sign, then one or more decimal digits, in range.
ParseI32(s) ==
    LET signed == Len(s) >= 1 /\ s[1] \in {"+", "-"}
        body == IF signed THEN Tail(s) ELSE s
        mag == DecValue(body, Len(body))
        n == IF signed /\ s[1] = "-" THEN 0 - mag ELSE mag
    IN IF body = <<>> \/ (\E p \in 1..Len(body) : body[p] \notin Digits)
       THEN Err("ParseIntError")
       ELSE IF n < (0 - 2147483647) - 1 \/ n > 2147483647 THEN Err("ParseIntError")
       ELSE Ok(n)

RECURSIVE DigitRuns(_, _, _, _)
\* Regex \d+ with find_iter: the maximal runs of digits of s, left to right,
\* each parsed as usize. cur is the value of the run being read, -1 outside a run.
DigitRuns(s, p, cur, acc) ==
    IF p > Len(s) THEN (IF cur >= 0 THEN Append(acc, cur) ELSE acc)
    ELSE IF s[p] \in Digits
         THEN DigitRuns(s, p + 1, (IF cur >= 0 THEN cur ELSE 0) * 10 + DigitVal(s[p]), acc)
         ELSE DigitRuns(s, p + 1, -1, IF cur >= 0 THEN Append(acc, cur) ELSE acc)

(***************************************************************************)
(* Quantum state layer.                                                    *)
(***************************************************************************)

index_to_binary_string(index, n) ==
    [p \in 1..n |-> IF (index \div Pow2(n - p)) % 2 = 1 THEN "1" ELSE "0"]

RECURSIVE Log2Floor(_)
Log2Floor(n) == IF n <= 1 THEN 0 ELSE 1 + Log2Floor(n \div 2)

IsPow2(n) == n >= 1 /\ Pow2(Log2Floor(n)) = n

qbit_length(m) ==
    IF ~is_vector(m) \/ ~IsPow2(Len(m))
    THEN Panic(PanicMsg("Invalid input for MEASURE, should be a vector of size power of two"))
    ELSE Ok(Log2Floor(Len(m)))

\* The largest exponent of 1/sqrt(2) among the entries of a column.
MaxK(m) ==
    LET ks == {m[i][1].k : i \in 1..Len(m)} \cup {0}
    IN CHOOSE x \in ks : \A y \in ks : y <= x

RECURSIVE CumModSq(_, _, _)
\* Sum of the squared moduli of the first n entries, over the denominator 2^K.
CumModSq(m, n, K) ==
    IF n = 0 THEN 0 ELSE CumModSq(m, n - 1, K) + ModSqScaled(m[n][1], K)

MutMeasurePickInclusive(m, u) ==
    LET K == MaxK(m)
        N == CumModSq(m, Len(m), K)
        hits == {i \in 0..(Len(m) - 1) : N > 0 /\ u * N <= CumModSq(m, i + 1, K) * DrawGrid}
    IN IF hits = {} THEN 0 ELSE CHOOSE i \in hits : \A j \in hits : i <= j

\* The index the loop of measure_vec breaks at: the first i whose running sum of
\* prob_at exceeds val = u / DrawGrid, 0 when there is none (sum is NaN when
\* the norm is 0, and NaN compares false).
MeasurePick(m, u) ==
    LET K == MaxK(m)
        N == CumModSq(m, Len(m), K)
        hits == {i \in 0..(Len(m) - 1) : N > 0 /\ u * N < CumModSq(m, i + 1, K) * DrawGrid}
    IN IF hits = {} THEN 0 ELSE CHOOSE i \in hits : \A j \in hits : i <= j

measure_vec(m, u) ==
    LET qb == qbit_length(m)
    IN IF qb.kind = "Panic" THEN qb
       ELSE Ok(index_to_binary_string(MeasurePick(m, u), qb.val))

RECURSIVE OptionSum(_, _, _, _, _, _)
\* options.data[j][0] after the first n rows of m were visited.
OptionSum(m, q, from, to, j, n) ==
    IF n = 0 THEN CZero
    ELSE LET prev == OptionSum(m, q, from, to, j, n - 1)
         IN IF Slice(index_to_binary_string(n - 1, q), from, to)
                  = index_to_binary_string(j, to - from)
            THEN C_add(m[n][1], prev)
            ELSE prev

\* The compact vector of measure_partial_vec.
PartialOptions(m, q, from, to) ==
    [j \in 1..Pow2(to - from) |-> <<OptionSum(m, q, from, to, j - 1, Len(m))>>]

MutMeasurePartialKeepsAll(m, from, to, u) ==
    IF ~is_vector(m) THEN Panic(PanicMsg("Invalid input measure, should be a vector"))
    ELSE IF to < from THEN Panic(PanicMsg("attempt to multiply with overflow"))
    ELSE LET qb == qbit_length(m)
         IN IF qb.kind = "Panic" THEN qb
            ELSE IF from < 0 \/ to > qb.val
                 THEN Panic(PanicMsg("byte index out of range of the string"))
            ELSE Ok(m)

measure_partial_vec(m, from, to, u) ==
    IF ~is_vector(m) THEN Panic(PanicMsg("Invalid input measure, should be a vector"))
    ELSE IF to < from THEN Panic(PanicMsg("attempt to multiply with overflow"))
    ELSE LET qb == qbit_length(m)
         IN IF qb.kind = "Panic" THEN qb
            ELSE IF from < 0 \/ to > qb.val
                 THEN Panic(PanicMsg("byte index out of range of the string"))
            ELSE LET options == PartialOptions(m, qb.val, from, to)
                     res == measure_vec(options, u).val
                 IN Ok([i \in 1..Len(m) |->
                           IF Slice(index_to_binary_string(i - 1, qb.val), from, to) # res
                           THEN <<CZero>>
                           ELSE m[i]])

(***************************************************************************)
(* Executor: values, memory.                                               *)
(***************************************************************************)
MatrixVal(m) == [tag |-> "Matrix", m |-> m]
IntVal(i) == [tag |-> "Int", i |-> i]
SelectionVal(key, mem, from, to) ==
    [tag |-> "Selection", key |-> key, mem |-> mem, from |-> from, to |-> to]
MeasurementVal(m, s) == [tag |-> "Measurement", m |-> m, s |-> s]

\* Option<(String, LiteralValue)>
None == [some |-> FALSE]
Some(name, value) == [some |-> TRUE, name |-> name, value |-> value]

\* HashMap::insert
Insert(map, key, value) ==
    [n \in (DOMAIN map) \cup {key} |-> IF n = key THEN value ELSE map[n]]

EmptyMap == [n \in {} |-> None]

QuantumMemory(heap, measurements) == [heap |-> heap, measurements |-> measurements]

\* What an executor function leaves behind: its Result and the mem after it.
Step(res, mem) == [res |-> res, mem |-> mem]

unwrap_matrix(lit) ==
    IF lit.tag = "Matrix" THEN Ok(lit.m) ELSE Err(SyntaxError("Invalid matrix"))

unwrap_selection(lit) ==
    IF lit.tag = "Selection" THEN Ok(lit) ELSE Err(SyntaxError("Invalid matrix"))

unwrap_int(lit) ==
    IF lit.tag = "Int" THEN Ok(lit.i) ELSE Err(SyntaxError("Invalid matrix"))

validate_param_len(params, expected) ==
    IF Len(params) # expected
    THEN Err(SyntaxError("Invalid number of parameters"))
    ELSE Ok(TRUE)

parse_params_from_prefebs(lit, expected) ==
    LET nmbrs == DigitRuns(lit, 1, -1, <<>>)
    IN IF Len(nmbrs) # expected THEN Err(SyntaxError("Invalid literal")) ELSE Ok(nmbrs)

Prefab ==
    [G_H |-> <<"G", "_", "H">>,
     G_CNOT |-> <<"G", "_", "C", "N", "O", "T">>,
     G_R_ |-> <<"G", "_", "R", "_">>,
     G_I_ |-> <<"G", "_", "I", "_">>,
     G_Uf_ |-> <<"G", "_", "U", "f", "_">>,
     G_QFTI_ |-> <<"G", "_", "Q", "F", "T", "I", "_">>]

\* The parameters of a prefab, read with parse_params_from_prefebs(..).unwrap().
PrefabParams(v, expected) == unwrap(parse_params_from_prefebs(v, expected))

PrefabGate(v) ==
    IF starts_with(v, Prefab.G_R_) THEN [n |-> 1, kind |-> "R"]
    ELSE IF starts_with(v, Prefab.G_I_) THEN [n |-> 1, kind |-> "I"]
    ELSE IF starts_with(v, Prefab.G_Uf_) THEN [n |-> 2, kind |-> "Uf"]
    ELSE IF starts_with(v, Prefab.G_QFTI_) THEN [n |-> 1, kind |-> "QFTI"]
    ELSE [n |-> 0, kind |-> "none"]

parse_literal(v) ==
    IF v = Prefab.G_H THEN Ok(MatrixVal(hadamard))
    ELSE IF v = Prefab.G_CNOT THEN Ok(MatrixVal(cnot))
    ELSE IF PrefabGate(v).kind # "none"
         THEN LET g == PrefabGate(v)
                  nmbrs == PrefabParams(v, g.n)
              IN IF nmbrs.kind = "Panic" THEN nmbrs
                 ELSE Ok(MatrixVal(
                        CASE g.kind = "R" -> phase_shift(nmbrs.val[1])
                          [] g.kind = "I" -> Matrix_identity(nmbrs.val[1])
                          [] g.kind = "Uf" -> unitary_modular(nmbrs.val[1], nmbrs.val[2])
                          [] g.kind = "QFTI" -> adjoint(quantum_fourier(nmbrs.val[1]))))
    ELSE IF ParseI32(v).kind = "Ok" THEN Ok(IntVal(ParseI32(v).val))
    ELSE Err(SyntaxError("Invalid literal"))

parse_identifier(var_name, mem) ==
    IF var_name \in DOMAIN mem.heap
    THEN Ok(mem.heap[var_name])
    ELSE Err(SyntaxError("Variable not found"))

(***************************************************************************)
(* Executor: built-in operations. params is the evaluated argument list,   *)
(* a sequence of (source name, value) pairs; us = <<u1, u2>> are the first *)
(* and second random draws the statement makes.                            *)
(***************************************************************************)
Func ==
    [INITIALIZE |-> <<"I", "N", "I", "T", "I", "A", "L", "I", "Z", "E">>,
     INVERSE |-> <<"I", "N", "V", "E", "R", "S", "E">>,
     TENSOR |-> <<"T", "E", "N", "S", "O", "R">>,
     CONCAT |-> <<"C", "O", "N", "C", "A", "T">>,
     APPLY |-> <<"A", "P", "P", "L", "Y">>,
     SELECT |-> <<"S", "E", "L", "E", "C", "T">>,
     MEASURE |-> <<"M", "E", "A", "S", "U", "R", "E">>,
     VECTOR |-> <<"V", "E", "C", "T", "O", "R">>]

\* The first panic among the unwrapped checks rs (in order), or none.
FirstPanic(rs) ==
    LET bad == {p \in 1..Len(rs) : unwrap(rs[p]).kind = "Panic"}
    IN IF bad = {} THEN Ok(TRUE)
       ELSE unwrap(rs[CHOOSE p \in bad : \A q \in bad : p <= q])

HeapTag == "Heap"
MeasurementTag == "Measurement"

MutInitializeExtraRow(func, params, mem) ==
    LET len == validate_param_len(params, 1)
        chk == IF len.kind = "Err" THEN unwrap(len) ELSE unwrap(unwrap_int(params[1].value))
    IN IF chk.kind = "Panic" THEN Step(chk, mem)
       ELSE LET value == chk.val
            IN IF value < 0 \/ value >= 32
               THEN Step(Panic(PanicMsg("attempt to multiply with overflow")), mem)
               ELSE Step(Ok(Some(func,
                        MatrixVal(Matrix_set(Matrix_zero(Pow2(value) + 1, 1), 0, 0, CReal(1))))),
                        mem)

MutInitializeLastKet(func, params, mem) ==
    LET len == validate_param_len(params, 1)
        chk == IF len.kind = "Err" THEN unwrap(len) ELSE unwrap(unwrap_int(params[1].value))
    IN IF chk.kind = "Panic" THEN Step(chk, mem)
       ELSE LET value == chk.val
            IN IF value < 0 \/ value >= 32
               THEN Step(Panic(PanicMsg("attempt to multiply with overflow")), mem)
               ELSE Step(Ok(Some(func,
                        MatrixVal(Matrix_set(Matrix_zero(Pow2(value), 1),
                                             Pow2(value) - 1, 0, CReal(1))))),
                        mem)

DoInitialize(func, params, mem) ==
    LET len == validate_param_len(params, 1)
        chk == IF len.kind = "Err" THEN unwrap(len) ELSE unwrap(unwrap_int(params[1].value))
    IN IF chk.kind = "Panic" THEN Step(chk, mem)
       ELSE LET value == chk.val
            IN IF value < 0 \/ value >= 32
               THEN Step(Panic(PanicMsg("attempt to multiply with overflow")), mem)
               ELSE Step(Ok(Some(func,
                        MatrixVal(Matrix_set(Matrix_zero(Pow2(value), 1), 0, 0, CReal(1))))),
                        mem)

DoInverse(func, params, mem) ==
    LET len == validate_param_len(params, 1)
        chk == IF len.kind = "Err" THEN unwrap(len) ELSE unwrap(unwrap_matrix(params[1].value))
    IN IF chk.kind = "Panic" THEN Step(chk, mem)
       ELSE IF ~is_hermitian(chk.val)
            THEN Step(Err(SyntaxError("Input invalid for INVERSE, should be a hermetian matrix")),
                      mem)
            ELSE Step(Ok(Some(func, MatrixVal(adjoint(chk.val)))), mem)

\* validate_param_len(2), then unwrap_matrix of both parameters, each unwrapped.
TwoMatrices(params) ==
    LET len == validate_param_len(params, 2)
    IN IF len.kind = "Err" THEN unwrap(len)
       ELSE FirstPanic(<<unwrap_matrix(params[1].value), unwrap_matrix(params[2].value)>>)

DoTensor(func, params, mem) ==
    LET chk == TwoMatrices(params)
    IN IF chk.kind = "Panic" THEN Step(chk, mem)
       ELSE Step(Ok(Some(func, MatrixVal(tensor(params[1].value.m, params[2].value.m)))),
                 mem)

DoConcat(func, params, mem) ==
    LET chk == TwoMatrices(params)
    IN IF chk.kind = "Panic" THEN Step(chk, mem)
       ELSE LET matrix1 == params[1].value.m
                matrix2 == params[2].value.m
            IN IF size(matrix1) # size(matrix2)
               THEN Step(Err(SyntaxError("Matrix sizes should be equal to CONCAT")), mem)
               ELSE IF MultiplyFails(matrix1, matrix2)
                    THEN Step(Panic(PanicMsg("assertion failed: left == right")), mem)
                    ELSE Step(Ok(Some(func, MatrixVal(multiply(matrix1, matrix2)))), mem)

MutApplyRequiresHermitian(func, params, mem) ==
    LET chk == TwoMatrices(params)
    IN IF chk.kind = "Panic" THEN Step(chk, mem)
       ELSE LET matrix == params[1].value.m
                vector == params[2].value.m
            IN IF ~is_hermitian(matrix) \/ ~is_vector(vector)
                  \/ size(vector)[1] # size(matrix)[2]
               THEN Step(Err(SyntaxError("Input invalid for APPLY")), mem)
               ELSE Step(Ok(Some(func, MatrixVal(multiply(matrix, vector)))), mem)

DoApply(func, params, mem) ==
    LET chk == TwoMatrices(params)
    IN IF chk.kind = "Panic" THEN Step(chk, mem)
       ELSE LET matrix == params[1].value.m
                vector == params[2].value.m
            IN IF ~is_vector(vector) \/ size(vector)[1] # size(matrix)[2]
               THEN Step(Err(SyntaxError("Input invalid for APPLY")), mem)
               ELSE Step(Ok(Some(func, MatrixVal(multiply(matrix, vector)))), mem)

DoSelect(func, params, mem) ==
    LET len == validate_param_len(params, 3)
        chk == IF len.kind = "Err" THEN unwrap(len)
               ELSE FirstPanic(<<unwrap_matrix(params[1].value),
                                 unwrap_int(params[2].value),
                                 unwrap_int(params[3].value)>>)
    IN IF chk.kind = "Panic" THEN Step(chk, mem)
       ELSE LET key == params[1].name
                vector == params[1].value.m
                start == params[2].value.i
                end == params[3].value.i
                qbit_len == qbit_length(vector)
            IN IF qbit_len.kind = "Panic" THEN Step(qbit_len, mem)
               ELSE IF ~is_vector(vector) \/ start > end \/ end < 0 \/ end > qbit_len.val
                    THEN Step(Err(SyntaxError("Invalid range for SELECT")), mem)
                    ELSE Step(Ok(Some(func, SelectionVal(key, HeapTag, start, end))), mem)

MutMeasureCollapsesVector(func, params, mem, us) ==
    LET vec == params[1].value.m
    IN IF ~is_vector(vec)
       THEN Step(Err(SyntaxError("Invalid input for MEASURE, should be a vector")), mem)
       ELSE LET s == measure_vec(vec, us[1])
            IN IF s.kind = "Panic" THEN Step(s, mem)
               ELSE LET res == measure_partial_vec(vec, 0, Len(s.val), us[1]).val
                    IN Step(Ok(Some(func, MeasurementVal(res, s.val))),
                            [mem EXCEPT !.heap =
                                Insert(mem.heap, params[1].name, MatrixVal(res))])

\* MEASURE of a vector value: the heap is not touched.
DoMeasureVector(func, params, mem, us) ==
    LET vec == params[1].value.m
    IN IF ~is_vector(vec)
       THEN Step(Err(SyntaxError("Invalid input for MEASURE, should be a vector")), mem)
       ELSE LET s == measure_vec(vec, us[1])
            IN IF s.kind = "Panic" THEN Step(s, mem)
               ELSE Step(Ok(Some(func, MeasurementVal(vec, s.val))), mem)

MutMeasureSelectionKeepsHeap(func, params, mem, us) ==
    LET sel == unwrap(unwrap_selection(params[1].value))
    IN IF sel.kind = "Panic" THEN Step(sel, mem)
       ELSE IF sel.val.key \notin DOMAIN mem.heap
            THEN Step(Panic(PanicMsg("called Option::unwrap() on a None value")), mem)
       ELSE LET matrix == mem.heap[sel.val.key]
                vec == unwrap(unwrap_matrix(matrix))
            IN IF vec.kind = "Panic" THEN Step(vec, mem)
               ELSE IF ~is_vector(vec.val)
                    THEN Step(Err(SyntaxError("Invalid input for MEASURE, should be a vector")),
                              mem)
               ELSE LET res == measure_partial_vec(vec.val, sel.val.from, sel.val.to, us[1])
                    IN IF res.kind = "Panic" THEN Step(res, mem)
                       ELSE LET s == measure_vec(res.val, us[2])
                            IN IF s.kind = "Panic" THEN Step(s, mem)
                               ELSE Step(Ok(Some(func, MeasurementVal(res.val, s.val))), mem)

\* MEASURE of a Selection: the source vector is collapsed on the heap.
DoMeasureSelection(func, params, mem, us) ==
    LET sel == unwrap(unwrap_selection(params[1].value))
    IN IF sel.kind = "Panic" THEN Step(sel, mem)
       ELSE IF sel.val.key \notin DOMAIN mem.heap
            THEN Step(Panic(PanicMsg("called Option::unwrap() on a None value")), mem)
       ELSE LET matrix == mem.heap[sel.val.key]
                vec == unwrap(unwrap_matrix(matrix))
            IN IF vec.kind = "Panic" THEN Step(vec, mem)
               ELSE IF ~is_vector(vec.val)
                    THEN Step(Err(SyntaxError("Invalid input for MEASURE, should be a vector")),
                              mem)
               ELSE LET res == measure_partial_vec(vec.val, sel.val.from, sel.val.to, us[1])
                    IN IF res.kind = "Panic" THEN Step(res, mem)
                       ELSE LET mem2 == [mem EXCEPT !.heap =
                                            Insert(mem.heap, sel.val.key, MatrixVal(res.val))]
                                s == measure_vec(res.val, us[2])
                            IN IF s.kind = "Panic" THEN Step(s, mem2)
                               ELSE Step(Ok(Some(func, MeasurementVal(res.val, s.val))), mem2)

DoMeasure(func, params, mem, us) ==
    LET len == unwrap(validate_param_len(params, 1))
    IN IF len.kind = "Panic" THEN Step(len, mem)
       ELSE IF unwrap_matrix(params[1].value).kind = "Ok"
            THEN DoMeasureVector(func, params, mem, us)
            ELSE DoMeasureSelection(func, params, mem, us)

(***************************************************************************)
(* Executor: the AST walk.                                                 *)
(***************************************************************************)
ASTLiteral(val) == [node |-> "Literal", val |-> val]
ASTIdentifier(name) == [node |-> "Identifier", name |-> name]
VariableAssignment(name, loc, body) ==
    [node |-> "VariableAssignment", name |-> name, loc |-> loc, body |-> body]
FunctionApplication(func, params) ==
    [node |-> "FunctionApplication", func |-> func, params |-> params]

sUnderscore == <<"_">>

RECURSIVE execute_ast_node(_, _, _)
RECURSIVE EvalParams(_, _, _, _)

\* params.iter().map(|p| execute_ast_node(p, memory).unwrap()).filter_map(|p| p)
\* over the first n parameters.
EvalParams(nodes, n, mem, us) ==
    IF n = 0 THEN Step(Ok(<<>>), mem)
    ELSE LET prev == EvalParams(nodes, n - 1, mem, us)
         IN IF prev.res.kind = "Panic" THEN prev
            ELSE LET r == execute_ast_node(nodes[n], prev.mem, us)
                     u == unwrap(r.res)
                 IN IF u.kind = "Panic" THEN Step(u, r.mem)
                    ELSE Step(Ok(IF u.val.some THEN Append(prev.res.val, u.val)
                                 ELSE prev.res.val), r.mem)

parse_func_application(func, nodes, mem, us) ==
    LET ev == EvalParams(nodes, Len(nodes), mem, us)
        params == ev.res.val
    IN IF ev.res.kind = "Panic" THEN ev
       ELSE IF func = Func.INITIALIZE THEN DoInitialize(func, params, ev.mem)
       ELSE IF func = Func.INVERSE THEN DoInverse(func, params, ev.mem)
       ELSE IF func = Func.TENSOR THEN DoTensor(func, params, ev.mem)
       ELSE IF func = Func.CONCAT THEN DoConcat(func, params, ev.mem)
       ELSE IF func = Func.APPLY THEN DoApply(func, params, ev.mem)
       ELSE IF func = Func.SELECT THEN DoSelect(func, params, ev.mem)
       ELSE IF func = Func.MEASURE THEN DoMeasure(func, params, ev.mem, us)
       ELSE Step(Err(NotImplemented), ev.mem)

parse_var_assignment(var_name, val, memory_loc, mem, us) ==
    LET r == execute_ast_node(val, mem, us)
        u == unwrap(r.res)
    IN IF u.kind = "Panic" THEN Step(u, r.mem)
       ELSE IF u.val.some
            THEN LET v == u.val.value
                 IN IF memory_loc = HeapTag /\ v.tag \in {"Int", "Matrix", "Selection"}
                    THEN Step(Ok(None),
                              [r.mem EXCEPT !.heap = Insert(r.mem.heap, var_name, v)])
                    ELSE IF memory_loc = MeasurementTag /\ v.tag = "Measurement"
                    THEN Step(Ok(None),
                              [r.mem EXCEPT !.measurements =
                                  Insert(r.mem.measurements, var_name, <<v.m, v.s>>)])
                    ELSE Step(Err(SyntaxError("Invalid assignment")), r.mem)
            ELSE Step(Err(SyntaxError("Variable not found")), r.mem)

execute_ast_node(ast_node, mem, us) ==
    IF ast_node.node = "Literal"
    THEN LET l == unwrap(parse_literal(ast_node.val))
         IN IF l.kind = "Panic" THEN Step(l, mem)
            ELSE Step(Ok(Some(sUnderscore, l.val)), mem)
    ELSE IF ast_node.node = "Identifier"
    THEN LET l == unwrap(parse_identifier(ast_node.name, mem))
         IN IF l.kind = "Panic" THEN Step(l, mem)
            ELSE Step(Ok(Some(ast_node.name, l.val)), mem)
    ELSE IF ast_node.node = "VariableAssignment"
    THEN LET r == parse_var_assignment(ast_node.name, ast_node.body, ast_node.loc, mem, us)
             u == unwrap(r.res)
         IN IF u.kind = "Panic" THEN Step(u, r.mem) ELSE Step(Ok(None), r.mem)
    ELSE parse_func_application(ast_node.func, ast_node.params, mem, us)

(***************************************************************************)
(* Lexer.                                                                  *)
(***************************************************************************)
Token(token_type, value) == [token_type |-> token_type, value |-> value]

ActionWords == {Func.INITIALIZE, Func.MEASURE, Func.SELECT, Func.APPLY, Func.CONCAT, Func.TENSOR, Func.INVERSE}

PrefabWords ==
    {Prefab.G_H, Prefab.G_R_ \o <<"2">>, Prefab.G_R_ \o <<"4">>, Prefab.G_I_ \o <<"2">>, Prefab.G_I_ \o <<"4">>,
     Prefab.G_I_ \o <<"8">>, Prefab.G_CNOT}

match_token_type(token) ==
    IF token \in ActionWords THEN "Action"
    ELSE IF token \in PrefabWords THEN "Prefabs"
    ELSE IF ParseI32(token).kind = "Ok" THEN "Literal"
    ELSE "Identifier"

\* The lexer's working state: the tokens emitted and the word being read.
LexState(tokens, current_token) == [tokens |-> tokens, current_token |-> current_token]

IsNotQuote(c) == c # "'"

push_current_token(st) ==
    IF Len(st.current_token) > 0
    THEN LexState(Append(st.tokens,
                         Token(match_token_type(st.current_token),
                               SelectSeq(st.current_token, IsNotQuote))),
                  <<>>)
    ELSE st

RECURSIVE LexScan(_, _)
\* The for loop of tokenize over the first n characters of inp.
LexScan(inp, n) ==
    IF n = 0 THEN LexState(<<>>, <<>>)
    ELSE LET st == LexScan(inp, n - 1)
             c == inp[n]
             pushed == push_current_token(st)
         IN IF c = " " THEN pushed
            ELSE IF c = "\n"
                 THEN LexState(Append(pushed.tokens, Token("NewLine", <<"\n">>)), <<>>)
            ELSE IF c = "["
                 THEN LexState(Append(pushed.tokens, Token("OpenBracket", <<"[">>)), <<>>)
            ELSE IF c = "]"
                 THEN LexState(Append(pushed.tokens, Token("CloseBracket", <<"]">>)), <<>>)
            ELSE LexState(st.tokens, Append(st.current_token, c))

RECURSIVE tokenize(_)
\* The loop runs line by line: at a newline the word being read is pushed and
\* the NewLine token emitted, so the scan of the rest starts from an empty word.
tokenize(inp) ==
    LET nl == {p \in 1..Len(inp) : inp[p] = "\n"}
    IN IF nl = {} THEN push_current_token(LexScan(inp, Len(inp))).tokens
       ELSE LET first == CHOOSE p \in nl : \A q \in nl : p <= q
            IN LexScan(inp, first).tokens \o tokenize(SubSeq(inp, first + 1, Len(inp)))

(***************************************************************************)
(* Parser.                                                                 *)
(***************************************************************************)
parse_param(param) ==
    IF param.token_type \in {"Literal", "Prefabs"} THEN Ok(ASTLiteral(param.value))
    ELSE IF param.token_type = "Identifier" THEN Ok(ASTIdentifier(param.value))
    ELSE Err(SyntaxError("Invalid paramater"))

RECURSIVE ParamsOf(_, _)
\* vec![parse_param(p).unwrap(), ...] over the first n tokens of ps: the nodes,
\* or the panic of the first parameter that is no Literal, Prefab or Identifier.
ParamsOf(ps, n) ==
    IF n = 0 THEN Ok(<<>>)
    ELSE LET prev == ParamsOf(ps, n - 1)
             cur == unwrap(parse_param(ps[n]))
         IN IF prev.kind = "Panic" THEN prev
            ELSE IF cur.kind = "Panic" THEN cur
            ELSE Ok(Append(prev.val, cur.val))

\* Ok(VariableAssignment(target, loc, FunctionApplication(func, params))).
Assignment(target, loc, func, ps) ==
    LET params == ParamsOf(ps, Len(ps))
    IN IF params.kind = "Panic" THEN params
       ELSE Ok(VariableAssignment(target, loc, FunctionApplication(func, params.val)))

parse_dual_token_group(action, param0, param1) ==
    IF action.value = Func.APPLY
    THEN Assignment(param1.value, HeapTag, action.value, <<param0, param1>>)
    ELSE IF action.value = Func.INITIALIZE
    THEN Assignment(param0.value, HeapTag, action.value, <<param1>>)
    ELSE IF action.value = Func.MEASURE
    THEN Assignment(param1.value, MeasurementTag, action.value, <<param0>>)
    ELSE Err(SyntaxError("Invalid dual action"))

parse_quat_token_group(action, param0, param1, param2, param3) ==
    IF action.value = Func.SELECT
    THEN Assignment(param0.value, HeapTag, action.value, <<param1, param2, param3>>)
    ELSE Err(SyntaxError("Invalid quat action"))

parse_ass_single_token_group(action, ass, param1) ==
    IF action.value = Func.INVERSE
    THEN Assignment(ass.value, HeapTag, action.value, <<param1>>)
    ELSE Err(SyntaxError("Invalid single assign action"))

parse_ass_dual_token_group(action, ass, param1, param2) ==
    IF action.value \in {Func.TENSOR, Func.CONCAT}
    THEN Assignment(ass.value, HeapTag, action.value, <<param1, param2>>)
    ELSE Err(SyntaxError("Invalid dual assign action"))

parse_vector_init(ass, params) ==
    LET lits == ParamsOf(params, Len(params))
    IN IF lits.kind = "Panic" THEN lits
       ELSE Ok(VariableAssignment(ass.value, HeapTag,
                  FunctionApplication(Func.INITIALIZE,
                                      <<FunctionApplication(Func.VECTOR, lits.val)>>)))

parse_token_group(inp) ==
    LET n == Len(inp)
        ty(p) == inp[p].token_type
    IN IF n = 3 /\ ty(1) = "Action"
       THEN parse_dual_token_group(inp[1], inp[2], inp[3])
       ELSE IF n >= 4 /\ ty(1) = "Action" /\ ty(2) = "Identifier"
               /\ ty(3) = "OpenBracket" /\ ty(n) = "CloseBracket"
       THEN parse_vector_init(inp[2], SubSeq(inp, 4, n - 1))
       ELSE IF n = 5 /\ ty(1) = "Action"
       THEN parse_quat_token_group(inp[1], inp[2], inp[3], inp[4], inp[5])
       ELSE IF n = 3 /\ ty(1) = "Identifier" /\ ty(2) = "Action"
       THEN parse_ass_single_token_group(inp[2], inp[1], inp[3])
       ELSE IF n = 4 /\ ty(1) = "Identifier" /\ ty(2) = "Action"
       THEN parse_ass_dual_token_group(inp[2], inp[1], inp[3], inp[4])
       ELSE Err(SyntaxError("Invalid action pattern"))

RECURSIVE SplitNewLine(_, _)
\* tokens.split(|t| t.token_type == NewLine) over the first n tokens: the groups,
\* the last one being the group still open.
SplitNewLine(tokens, n) ==
    IF n = 0 THEN << <<>> >>
    ELSE LET prev == SplitNewLine(tokens, n - 1)
             last == Len(prev)
         IN IF tokens[n].token_type = "NewLine" THEN Append(prev, <<>>)
            ELSE [prev EXCEPT ![last] = Append(prev[last], tokens[n])]

MutKeepsEmptyGroups(g) == TRUE

IsNonEmpty(g) == Len(g) > 0

RECURSIVE ParseGroups(_, _)
\* groups.map(|g| parse_token_group(g).unwrap()) over the first n groups.
ParseGroups(groups, n) ==
    IF n = 0 THEN Ok(<<>>)
    ELSE LET prev == ParseGroups(groups, n - 1)
         IN IF prev.kind = "Panic" THEN prev
            ELSE LET cur == unwrap(parse_token_group(groups[n]))
                 IN IF cur.kind = "Panic" THEN cur ELSE Ok(Append(prev.val, cur.val))

parse(inp) ==
    LET tokens == tokenize(inp)
        groups == SelectSeq(SplitNewLine(tokens, Len(tokens)), IsNonEmpty)
    IN ParseGroups(groups, Len(groups))

(***************************************************************************)
(* Program texts the model runs.                                           *)
(***************************************************************************)
RECURSIVE JoinWith(_, _, _)
\* The first n items of parts, joined by the character sep.
JoinWith(parts, sep, n) ==
    IF n = 0 THEN <<>>
    ELSE IF n = 1 THEN parts[1]
    ELSE JoinWith(parts, sep, n - 1) \o <<sep>> \o parts[n]

Line(words) == JoinWith(words, " ", Len(words))
Text(lines) == JoinWith(lines, "\n", Len(lines))

Word ==
    [R |-> <<"R">>, U |-> <<"U">>, V |-> <<"V">>, S |-> <<"S">>, S1 |-> <<"S", "1">>,
     RES |-> <<"R", "E", "S">>,
     RES1 |-> <<"R", "E", "S", "1">>,
     RES2 |-> <<"R", "E", "S", "2">>,
     G_I_2 |-> Prefab.G_I_ \o <<"2">>,
     G_R_2 |-> Prefab.G_R_ \o <<"2">>,
     G_X |-> <<"G", "_", "X">>,
     n0 |-> <<"0">>, n1 |-> <<"1">>, n2 |-> <<"2">>, n3 |-> <<"3">>,
     minus1 |-> <<"-", "1">>,
     open |-> <<"[">>, close |-> <<"]">>]

lInitR(n) == Line(<<Func.INITIALIZE, Word.R, n>>)
lSelect(s, from, to) == Line(<<Func.SELECT, s, Word.R, from, to>>)
lMeasure(a, res) == Line(<<Func.MEASURE, a, res>>)

\* Lines the programs are made of.
Ln ==
    [TensorHI |-> Line(<<Word.U, Func.TENSOR, Prefab.G_H, Word.G_I_2>>),
     TensorHH |-> Line(<<Word.U, Func.TENSOR, Prefab.G_H, Prefab.G_H>>),
     ApplyUR |-> Line(<<Func.APPLY, Word.U, Word.R>>),
     ApplyCnotR |-> Line(<<Func.APPLY, Prefab.G_CNOT, Word.R>>),
     ApplyHR |-> Line(<<Func.APPLY, Prefab.G_H, Word.R>>),
     VectorInit |-> Line(<<Func.INITIALIZE, Word.R, Word.open, Word.n1, Word.n0,
                           Word.close>>)]

\* Bell: test_select of the executor. InitMeasure: test_init_and_measure_executor.
\* TensorApply: test_tensor_hadamar_and_apply. MeasureTwice: two measurements of
\* the same uncollapsed register. ApplyPhase: a phase shift (not Hermitian)
\* applied to one qubit in superposition. ApplyToMatrix: APPLY whose second
\* argument is bound to a square matrix. ConcatGates, ConcatVectors: CONCAT of
\* two gates of equal size, and of a vector with itself. TensorVectors: TENSOR
\* of a register with itself, measured. GrowRegister: a register selected,
\* then applied the TENSOR of a gate with the register itself.
Prog ==
    [Bell |-> <<lInitR(Word.n2), Ln.TensorHI, Ln.ApplyUR,
                lSelect(Word.S1, Word.n0, Word.n1), lMeasure(Word.S1, Word.RES1),
                Ln.ApplyCnotR, lMeasure(Word.R, Word.RES2)>>,
     InitMeasure |-> <<lInitR(Word.n2), lMeasure(Word.R, Word.RES)>>,
     TensorApply |-> <<lInitR(Word.n2), Ln.TensorHH, Ln.ApplyUR, lMeasure(Word.R, Word.RES)>>,
     MeasureTwice |-> <<lInitR(Word.n2), Ln.TensorHH, Ln.ApplyUR,
                        lMeasure(Word.R, Word.RES1), lMeasure(Word.R, Word.RES2)>>,
     ApplyPhase |-> <<lInitR(Word.n1), Ln.ApplyHR,
                      Line(<<Func.APPLY, Word.G_R_2, Word.R>>), lMeasure(Word.R, Word.RES)>>,
     ApplyToMatrix |-> <<Ln.TensorHH, Line(<<Func.APPLY, Prefab.G_H, Word.U>>)>>,
     ConcatGates |-> <<Line(<<Word.U, Func.CONCAT, Prefab.G_H, Word.G_R_2>>),
                       lInitR(Word.n1), Ln.ApplyUR, lMeasure(Word.R, Word.RES)>>,
     ConcatVectors |-> <<lInitR(Word.n1), Line(<<Word.U, Func.CONCAT, Word.R, Word.R>>)>>,
     TensorVectors |-> <<lInitR(Word.n1), Line(<<Word.V, Func.TENSOR, Word.R, Word.R>>),
                         lMeasure(Word.V, Word.RES)>>,
     GrowRegister |-> <<lInitR(Word.n1), lSelect(Word.S, Word.n0, Word.n1),
                        Line(<<Word.U, Func.TENSOR, Prefab.G_H, Word.R>>),
                        Ln.ApplyUR, lMeasure(Word.S, Word.RES1), lMeasure(Word.R, Word.RES2)>>]

FixedPrograms == {Prog[k] : k \in DOMAIN Prog}

RECURSIVE Suffixes(_, _)
\* Every sequence of at most n lines of the pool.
Suffixes(pool, n) ==
    IF n = 0 THEN {<<>>}
    ELSE LET shorter == Suffixes(pool, n - 1)
         IN shorter \cup {Append(s, l) : s \in shorter, l \in pool}

\* The fixed programs, and the generated ones: a start (prefixes) continued
\* with at most MaxProgLen lines of the pool.
Programs ==
    LET prefixes ==
            {<<>>,
             <<lInitR(Word.n1)>>,
             <<lInitR(Word.n2), Ln.TensorHI, Ln.ApplyUR>>,
             <<lInitR(Word.n2), Ln.TensorHH, Ln.ApplyUR, lSelect(Word.S, Word.n0, Word.n1)>>}
        pool ==
            {lInitR(Word.n0), lInitR(Word.n3),
             lMeasure(Word.R, Word.RES), lMeasure(Word.S, Word.RES), lMeasure(Word.n2, Word.RES),
             lSelect(Word.S, Word.n1, Word.n2), lSelect(Word.S, Word.n1, Word.n1),
             lSelect(Word.S, Word.minus1, Word.n1), lSelect(Word.S, Word.n2, Word.n1), lSelect(Word.S, Word.n1, Word.n3),
             Line(<<Func.SELECT, Word.S, Word.U, Word.n0, Word.n1>>),
             Ln.ApplyHR, Ln.ApplyCnotR, Ln.ApplyUR,
             Line(<<Word.U, Func.INVERSE, Word.G_R_2>>),
             Line(<<Word.U, Func.CONCAT, Prefab.G_H, Prefab.G_CNOT>>),
             Line(<<Word.U, Func.TENSOR, Word.R, Word.n2>>),
             Line(<<Func.MEASURE, Word.R>>),
             Ln.VectorInit}
    IN {Text(p) : p \in FixedPrograms}
           \cup {Text(pre \o suf) : pre \in prefixes, suf \in Suffixes(pool, MaxProgLen)}

\* ASTs handed to execute_script directly.
DirectASTs ==
    {<<VariableAssignment(Word.U, HeapTag,
          FunctionApplication(Func.TENSOR, <<ASTLiteral(Word.G_X), ASTLiteral(Prefab.G_H)>>))>>,
     <<VariableAssignment(Word.R, HeapTag, FunctionApplication(Func.VECTOR, <<ASTLiteral(Word.n1)>>))>>,
     <<VariableAssignment(Word.R, MeasurementTag,
          FunctionApplication(Func.INITIALIZE, <<ASTLiteral(Word.n1)>>))>>,
     <<FunctionApplication(Func.INITIALIZE, <<ASTLiteral(Word.n1)>>),
       VariableAssignment(Word.U, HeapTag, ASTLiteral(Prefab.G_I_ \o <<"4">>)),
       VariableAssignment(Word.V, HeapTag, ASTIdentifier(Word.U))>>,
     <<VariableAssignment(Word.R, HeapTag,
          FunctionApplication(Func.INITIALIZE, <<ASTLiteral(Word.n1)>>)),
       VariableAssignment(Word.V, HeapTag,
          FunctionApplication(Func.TENSOR,
              <<ASTLiteral(Prefab.G_I_ \o <<"3">>), ASTIdentifier(Word.R)>>)),
       VariableAssignment(Word.RES, MeasurementTag,
          FunctionApplication(Func.MEASURE, <<ASTIdentifier(Word.V)>>))>>}

(***************************************************************************)
(* run and execute_script as a state machine.                              *)
(***************************************************************************)
Draws == 0..(DrawGrid - 1)

\* Only a MEASURE statement draws from thread_rng.
DrawsOf(node) ==
    IF node.node = "VariableAssignment" /\ node.body.node = "FunctionApplication"
       /\ node.body.func = Func.MEASURE
    THEN Draws
    ELSE {0}

Pending == [kind |-> "Pending"]

ParseError(e) == [variant |-> "ParseError", inner |-> e]
RuntimeError(e) == [variant |-> "RuntimeError", inner |-> e]

SimIdle == [op |-> "idle"]

\* Either run is called on a program text, or execute_script on an AST.
Init ==
    /\ \/ /\ entry = "run"
          /\ input \in Programs
          /\ pc = "run"
          /\ ast = <<>>
       \/ /\ entry = "execute_script"
          /\ input = <<>>
          /\ pc = "execute"
          /\ ast \in DirectASTs
    /\ ip = 1
    /\ memory = QuantumMemory(EmptyMap, EmptyMap)
    /\ result = Pending
    /\ sim = SimIdle

\* run: parser::parse(input); an Err is returned as ParseError.
RunParse ==
    /\ pc = "run"
    /\ LET a == parse(input)
       IN IF a.kind = "Ok"
          THEN /\ ast' = a.val
               /\ pc' = "execute"
               /\ result' = result
          ELSE /\ ast' = ast
               /\ pc' = "done"
               /\ result' = IF a.kind = "Err" THEN Err(ParseError(a.err)) ELSE a
    /\ UNCHANGED <<entry, input, ip, memory, sim>>

\* execute_script: one turn of the loop, execute_ast_node(&node, &mut memory).unwrap().
ExecuteNode ==
    /\ pc = "execute"
    /\ ip <= Len(ast)
    /\ \E u1 \in DrawsOf(ast[ip]), u2 \in DrawsOf(ast[ip]) :
          LET r == execute_ast_node(ast[ip], memory, <<u1, u2>>)
              u == unwrap(r.res)
          IN /\ memory' = r.mem
             /\ IF u.kind = "Panic"
                THEN /\ pc' = "done"
                     /\ result' = u
                     /\ ip' = ip
                ELSE /\ pc' = pc
                     /\ result' = result
                     /\ ip' = ip + 1
    /\ UNCHANGED <<entry, input, ast, sim>>

\* execute_script returns Ok(memory.measurements); run hands it on (an Err would
\* be wrapped as RuntimeError).
ExecuteReturn ==
    /\ pc = "execute"
    /\ ip > Len(ast)
    /\ pc' = "done"
    /\ LET script == Ok(memory.measurements)
       IN result' = IF entry = "run" /\ script.kind = "Err"
                    THEN Err(RuntimeError(script.err))
                    ELSE script
    /\ UNCHANGED <<entry, input, ast, ip, memory, sim>>

Next == RunParse \/ ExecuteNode \/ ExecuteReturn

Spec == Init /\ [][Next]_vars

(***************************************************************************)
(* Direct calls of the quantum state layer (the unit tests of quantum_sim).*)
(***************************************************************************)
Column(xs) == [i \in 1..Len(xs) |-> <<xs[i]>>]

\* Columns of 1 to 4 rows of amplitudes up to MaxAmp, and the vectors of test_measure_prob and
\* test_partial_measure with their amplitudes in tenths.
TestVectors ==
    {Column(xs) : xs \in UNION {[1..n -> {CReal(a) : a \in (0 - MaxAmp)..MaxAmp}] : n \in 1..4}}
        \cup {Column(<<CReal(0), CReal(0), CReal(7), CReal(5)>>),
              Column(<<CReal(0), CReal(10), CReal(7), CReal(5)>>)}

SimInit ==
    /\ entry = "quantum_sim"
    /\ input = <<>>
    /\ pc = "done"
    /\ ast = <<>>
    /\ ip = 1
    /\ memory = QuantumMemory(EmptyMap, EmptyMap)
    /\ result = Pending
    /\ sim \in {[op |-> "input", v |-> v] : v \in TestVectors}

SimMeasureVec ==
    /\ sim.op = "input"
    /\ \E u \in Draws :
          sim' = [op |-> "measure_vec", v |-> sim.v, u |-> u, out |-> measure_vec(sim.v, u)]
    /\ UNCHANGED <<entry, input, pc, ast, ip, memory, result>>

SimMeasurePartial ==
    /\ sim.op = "input"
    /\ \E u \in Draws, from \in (0 - 1)..2, to \in 0..3 :
          sim' = [op |-> "measure_partial_vec", v |-> sim.v, from |-> from, to |-> to,
                  u |-> u, out |-> measure_partial_vec(sim.v, from, to, u)]
    /\ UNCHANGED <<entry, input, pc, ast, ip, memory, result>>

SimNext == SimMeasureVec \/ SimMeasurePartial

SimSpec == SimInit /\ [][SimNext]_vars

(***************************************************************************)
(* Direct calls of the lexer and the parser (the unit tests of both): a    *)
(* text is tokenized, parsed, and parsed again with a blank line inserted. *)
(***************************************************************************)
\* Every sequence over the set S of length at most n.
SeqsUpTo(S, n) == UNION {[1..k -> S] : k \in 0..n}

\* The texts parsed.  words: every short word over LexAlphabet, and the
\* action and prefab names with a neighbour of each.  lines: at most
\* MaxLineWords words, an action or a name, a second word, up to
\* MaxLineWords - 3 words of any operand kind and a last operand.  programs:
\* several lines, one of them possibly blank or of no grammar shape.
ParseSources ==
    LET words == (SeqsUpTo(LexAlphabet, MaxWordLen) \ {<<>>})
                     \cup ActionWords \cup PrefabWords
                     \cup {Word.G_X, Word.R, Word.RES1, Func.VECTOR,
                           Prefab.G_I_ \o <<"1", "6">>, Func.APPLY \o <<"'">>,
                           <<"'">> \o Prefab.G_H \o <<"'">>, <<"a", "p", "p", "l", "y">>}
        heads == ActionWords \cup {Word.R, Word.n2}
        seconds == {Word.R, Word.n2, Prefab.G_H, Func.MEASURE, Func.INVERSE, Func.TENSOR}
        middles == SeqsUpTo({Word.U, Word.n3, Word.open}, MaxLineWords - 3)
        lasts == {<<>>, <<Word.S>>, <<Word.n1>>, <<Word.close>>}
        lines == {<<h, s2>> \o m \o l : h \in heads, s2 \in seconds, m \in middles, l \in lasts}
        programs == {<<Func.INITIALIZE, Word.R, Word.n2>>,
                     <<Word.U, Func.TENSOR, Prefab.G_H, Prefab.G_H>>,
                     <<Func.APPLY, Word.U, Word.R>>, <<Func.MEASURE, Word.R, Word.RES>>,
                     <<Func.MEASURE, Word.R>>, <<>>}
    IN {<<l>> : l \in lines} \cup {<<<<w>>>> : w \in words}
           \cup (SeqsUpTo(programs, MaxParseLines) \ {<<>>})

\* The text of a list of lines, each a list of words.
SourceText(lines) == Text([p \in 1..Len(lines) |-> Line(lines[p])])

\* A blank line: empty, or made of one or two spaces.
BlankLines == {<<>>, <<<<>>, <<>>>>, <<<<>>, <<>>, <<>>>>}

InsertLine(lines, p, l) == SubSeq(lines, 1, p) \o <<l>> \o SubSeq(lines, p + 1, Len(lines))

ParseInit ==
    /\ entry = "parse"
    /\ sim \in {[op |-> "source", lines |-> ls] : ls \in ParseSources}
    /\ input = SourceText(sim.lines)
    /\ pc = "tokenize"
    /\ ast = <<>>
    /\ ip = 1
    /\ memory = QuantumMemory(EmptyMap, EmptyMap)
    /\ result = Pending

ParseTokenize ==
    /\ entry = "parse"
    /\ pc = "tokenize"
    /\ sim' = [op |-> "tokenize", lines |-> sim.lines, tokens |-> tokenize(input)]
    /\ pc' = "parse"
    /\ UNCHANGED <<entry, input, ast, ip, memory, result>>

ParseText ==
    /\ entry = "parse"
    /\ pc = "parse"
    /\ result' = unwrap(parse(input))
    /\ ast' = IF result'.kind = "Ok" THEN result'.val ELSE ast
    /\ pc' = "parsed"
    /\ UNCHANGED <<entry, input, ip, memory, sim>>

ParsePadded ==
    /\ entry = "parse"
    /\ pc = "parsed"
    /\ \E p \in 0..Len(sim.lines), blank \in BlankLines :
          LET padded == InsertLine(sim.lines, p, blank)
          IN /\ input' = SourceText(padded)
             /\ sim' = [op |-> "padded", lines |-> sim.lines, padded |-> padded,
                        out |-> unwrap(parse(SourceText(padded)))]
    /\ pc' = "done"
    /\ UNCHANGED <<entry, ast, ip, memory, result>>

ParseNext == ParseTokenize \/ ParseText \/ ParsePadded

ParseSpec == ParseInit /\ [][ParseNext]_vars

(***************************************************************************)
(* algorithms.rs: the classical parts of Shor's algorithm, called directly *)
(* (the unit tests) and through the driver shors.                          *)
(***************************************************************************)
\* Option<(u32, u32)>::Some
SomePair(p, q) == [some |-> TRUE, p |-> p, q |-> q]

RECURSIVE gcd(_, _)
gcd(a, b) == IF b = 0 THEN a ELSE gcd(b, a % b)

\* Three loops: the smallest sample below 10e5; the samples other than the
\* minimum, each minus it; attempt = gcd(attempt, subtrcts[i]) from the
\* third difference on.  subtrcts[0] and subtrcts[1] are indexed unchecked:
\* a list with fewer than two entries above the minimum panics.
period_in_ints(nbmrs) ==
    LET RECURSIVE MinFrom(_, _)
        MinFrom(rest, min) ==
            IF rest = <<>> THEN min
            ELSE MinFrom(Tail(rest), IF Head(rest) < min THEN Head(rest) ELSE min)
        min == MinFrom(nbmrs, 1000000)
        RECURSIVE Subtracts(_)
        Subtracts(rest) ==
            IF rest = <<>> THEN <<>>
            ELSE IF Head(rest) = min THEN Subtracts(Tail(rest))
            ELSE <<Head(rest) - min>> \o Subtracts(Tail(rest))
        subtrcts == Subtracts(nbmrs)
        RECURSIVE GcdFold(_, _)
        GcdFold(attempt, i) ==
            IF i > Len(subtrcts) THEN attempt
            ELSE GcdFold(gcd(attempt, subtrcts[i]), i + 1)
    IN IF Len(subtrcts) < 2
       THEN Panic(PanicMsg("index out of bounds"))
       ELSE Ok(GcdFold(gcd(subtrcts[1], subtrcts[2]), 3))

\* n >= 1: n - 1 and % n are not defined for n = 0.
find_factors(r, a, n) ==
    IF r % 2 # 0 THEN None
    ELSE IF mod_power(a, r, n) = n - 1 THEN None
    ELSE LET g == gcd(mod_power(a, r \div 2, n) + 1, n)
         IN IF g = 1 \/ g = n THEN None ELSE SomePair(g, n \div g)

\* find_period's script leaves, after APPLY G_Uf_a_n, equal weight on every
\* |x, a^x mod n> with x below 2^m_bits; MEASURE S RES collapses the low
\* register to one value f, and what is left is equal weight on the x, in
\* ascending order, whose power is f.
MRegister(a, n, f) ==
    LET m_bits == 2 * min_bit_size(n)
        xs == {x \in 0..(Pow2(m_bits) - 1) : mod_power(a, x, n) = f}
    IN [i \in 1..Cardinality(xs) |->
           CHOOSE x \in xs : Cardinality({y \in xs : y < x}) = i - 1]

\* MEASURE R RES1 .. RES7 and get_m of each: measure_vec over the equal
\* weights of xs with the draw us[i] / PeriodGrid picks the first index whose
\* running sum exceeds the draw.
Samples(xs, us) == [i \in 1..7 |-> xs[(us[i] * Len(xs)) \div PeriodGrid + 1]]

\* find_factors on the arguments of test_find_factors and on every small
\* r, a, n; period_in_ints on the lists of test_find_period_in_int, on
\* samples above the 10e5 the minimum search starts from and on every short
\* list of small samples; shors on the numbers test_shors factors.
AlgInit ==
    /\ \/ /\ entry = "find_factors"
          /\ input \in {<<4, 2, 15>>, <<78, 24, 371>>, <<26, 6, 371>>, <<3, 2, 15>>}
                           \cup ((0..MaxR) \X (0..MaxN) \X (1..MaxN))
          /\ pc = "call"
       \/ /\ entry = "period_in_ints"
          /\ input \in {<<2, 254, 14, 18>>, <<2, 254, 14, 16>>, <<7, 13, 19, 28>>,
                        <<10, 20, 1005>>, <<1000002, 1000006, 1000010>>}
                           \cup (SeqsUpTo(0..MaxSample, MaxSamples) \ {<<>>})
          /\ pc = "call"
       \/ /\ entry = "shors"
          /\ input \in {6, 14, 15}
          /\ pc = "pick_a"
    /\ ast = <<>>
    /\ ip = 0
    /\ memory = QuantumMemory(EmptyMap, EmptyMap)
    /\ result = Pending
    /\ sim = [op |-> "none"]

CallFindFactors ==
    /\ entry = "find_factors"
    /\ pc = "call"
    /\ result' = Ok(find_factors(input[1], input[2], input[3]))
    /\ pc' = "done"
    /\ UNCHANGED <<entry, input, ast, ip, memory, sim>>

CallPeriodInInts ==
    /\ entry = "period_in_ints"
    /\ pc = "call"
    /\ result' = period_in_ints(input)
    /\ pc' = "done"
    /\ UNCHANGED <<entry, input, ast, ip, memory, sim>>

\* for i in 0..10: pick_a draws a from 2..n; a base sharing a factor with n
\* returns that factor at once.  After the loop: panic.
ShorsPickA ==
    /\ entry = "shors"
    /\ pc = "pick_a"
    /\ IF ip >= 10
       THEN /\ result' = Panic(PanicMsg("COULD NOT FIND A VALID R"))
            /\ pc' = "done"
            /\ UNCHANGED sim
       ELSE \E a \in 2..(input - 1) :
               IF gcd(a, input) # 1
               THEN /\ result' = Ok(SomePair(gcd(a, input), input \div gcd(a, input)))
                    /\ pc' = "done"
                    /\ sim' = [op |-> "pick_a", a |-> a]
               ELSE /\ sim' = [op |-> "pick_a", a |-> a]
                    /\ pc' = "find_period"
                    /\ UNCHANGED result
    /\ UNCHANGED <<entry, input, ast, ip, memory>>

\* find_period up to MEASURE S RES: the low register collapses to one of
\* the powers of a.
ShorsCollapse ==
    /\ entry = "shors"
    /\ pc = "find_period"
    /\ \E f \in {mod_power(sim.a, x, input) : x \in 0..(Pow2(2 * min_bit_size(input)) - 1)} :
          sim' = [op |-> "collapse", a |-> sim.a, xs |-> MRegister(sim.a, input, f)]
    /\ pc' = "samples"
    /\ UNCHANGED <<entry, input, ast, ip, memory, result>>

\* find_period from MEASURE R RES1 on: seven samples and their period.
ShorsFindPeriod ==
    /\ entry = "shors"
    /\ pc = "samples"
    /\ \E us \in [1..7 -> 0..(PeriodGrid - 1)] :
          LET nbmrs == Samples(sim.xs, us)
              r == period_in_ints(nbmrs)
          IN IF r.kind = "Panic"
             THEN /\ result' = r
                  /\ pc' = "done"
                  /\ sim' = [op |-> "find_period", a |-> sim.a, nbmrs |-> nbmrs]
             ELSE /\ sim' = [op |-> "find_period", a |-> sim.a, nbmrs |-> nbmrs,
                             r |-> r.val]
                  /\ pc' = "find_factors"
                  /\ UNCHANGED result
    /\ UNCHANGED <<entry, input, ast, ip, memory>>

\* let res = find_factors(r, a, n); both arms of the is_none test return.
ShorsFindFactors ==
    /\ entry = "shors"
    /\ pc = "find_factors"
    /\ LET res == find_factors(sim.r, sim.a, input)
       IN /\ result' = Ok(res)
          /\ sim' = [op |-> "find_factors", a |-> sim.a, r |-> sim.r]
    /\ pc' = "done"
    /\ UNCHANGED <<entry, input, ast, ip, memory>>

AlgNext ==
    \/ CallFindFactors
    \/ CallPeriodInInts
    \/ ShorsPickA
    \/ ShorsCollapse
    \/ ShorsFindPeriod
    \/ ShorsFindFactors

AlgSpec == AlgInit /\ [][AlgNext]_vars

(***************************************************************************)
(* Direct calls of the matrix kernel and the gate constructors (the unit   *)
(* tests of matrix.rs).                                                    *)
(***************************************************************************)
\* unitary_modular on small bases and moduli (2, 3 is test_unitary_modular);
\* is_unitary on every gate constructor of the executor's prefabs, with the
\* phase shifts whose entries are exact; quantum_fourier of 1 to 3 qubits (2 is
\* tetst_qft); tensor and + on the operands of test_matrix_tensor and
\* test_matrix_add, on a row and on a 2 x 3 matrix, each paired with every
\* 0/1 matrix of at most MaxDim rows and columns.
MatInit ==
    LET small == UNION {[1..r -> [1..c -> {CZero, COne}]] : r \in 1..MaxDim, c \in 1..MaxDim}
        tests == {<< <<CReal(1)>>, <<CReal(2)>> >>,
                  << <<CReal(5)>>, <<CReal(6)>>, <<CReal(7)>> >>,
                  << <<CReal(1), CReal(2)>>, <<CReal(3), CReal(4)>> >>,
                  << <<CReal(5), CReal(6)>>, <<CReal(7), CReal(8)>> >>,
                  << <<CReal(2), ImagUnitPow(1)>> >>,
                  << <<CReal(1), CReal(2), CReal(3)>>, <<CReal(4), CReal(5), CReal(6)>> >>}
        pairs == (small \X tests) \cup (tests \X small) \cup (tests \X tests)
        gates == {[name |-> "hadamard"], [name |-> "cnot"]}
                     \cup {[name |-> "phase_shift", d |-> d] : d \in {1, 2, 4}}
                     \cup {[name |-> "identity", d |-> d] : d \in 1..(2 * MaxDim)}
                     \cup {[name |-> "unitary_modular", a |-> a, n |-> 1] : a \in 0..MaxBase}
                     \cup {[name |-> "quantum_fourier", k |-> k] : k \in 1..3}
    IN /\ entry = "matrix"
       /\ input \in {[op |-> "unitary_modular", a |-> a, n |-> n] : a \in 0..MaxBase, n \in 1..3}
                       \cup {[op |-> "is_unitary", gate |-> g] : g \in gates}
                       \cup {[op |-> "quantum_fourier", k |-> k] : k \in 1..3}
                       \cup {[op |-> o, A |-> p[1], B |-> p[2]] : o \in {"tensor", "add"}, p \in pairs}
       /\ pc = "call"
       /\ ast = <<>>
       /\ ip = 0
       /\ memory = QuantumMemory(EmptyMap, EmptyMap)
       /\ result = Pending
       /\ sim = [op |-> "none"]

MatUnitaryModular ==
    /\ entry = "matrix"
    /\ pc = "call"
    /\ input.op = "unitary_modular"
    /\ result' = Ok(unitary_modular(input.a, input.n))
    /\ pc' = "built"
    /\ UNCHANGED <<entry, input, ast, ip, memory, sim>>

\* m * vec, as in test_unitary_modular: vec holds x + 1 at every index
\* x * 2^nbits and zero elsewhere.  The product is taken for the matrices
\* of 8 rows (the modulus 1).
MatApply ==
    /\ entry = "matrix"
    /\ pc = "built"
    /\ Len(result.val) = 8
    /\ LET m == result.val
           nrep == Pow2(min_bit_size(input.n))
           vec == [i \in 1..Len(m) |->
                      <<IF (i - 1) % nrep = 0 THEN CReal((i - 1) \div nrep + 1) ELSE CZero>>]
       IN sim' = [op |-> "apply", vec |-> vec, out |-> multiply(m, vec)]
    /\ pc' = "done"
    /\ UNCHANGED <<entry, input, ast, ip, memory, result>>

MatIsUnitary ==
    /\ entry = "matrix"
    /\ pc = "call"
    /\ input.op = "is_unitary"
    /\ LET g == input.gate
           m == CASE g.name = "hadamard" -> hadamard
                  [] g.name = "cnot" -> cnot
                  [] g.name = "phase_shift" -> phase_shift(g.d)
                  [] g.name = "identity" -> Matrix_identity(g.d)
                  [] g.name = "unitary_modular" -> unitary_modular(g.a, g.n)
                  [] g.name = "quantum_fourier" -> quantum_fourier(g.k)
       IN /\ result' = Ok(is_unitary(m))
          /\ sim' = [op |-> "gate", m |-> m]
    /\ pc' = "done"
    /\ UNCHANGED <<entry, input, ast, ip, memory>>

MatQuantumFourier ==
    /\ entry = "matrix"
    /\ pc = "call"
    /\ input.op = "quantum_fourier"
    /\ result' = Ok(quantum_fourier(input.k))
    /\ pc' = "done"
    /\ UNCHANGED <<entry, input, ast, ip, memory, sim>>

MatTensor ==
    /\ entry = "matrix"
    /\ pc = "call"
    /\ input.op = "tensor"
    /\ result' = Ok(tensor(input.A, input.B))
    /\ pc' = "done"
    /\ UNCHANGED <<entry, input, ast, ip, memory, sim>>

MatAdd ==
    /\ entry = "matrix"
    /\ pc = "call"
    /\ input.op = "add"
    /\ result' = Matrix_add(input.A, input.B)
    /\ pc' = "done"
    /\ UNCHANGED <<entry, input, ast, ip, memory, sim>>

MatNext == MatUnitaryModular \/ MatApply \/ MatIsUnitary \/ MatQuantumFourier \/ MatTensor \/ MatAdd

MatSpec == MatInit /\ [][MatNext]_vars

(***************************************************************************)
(* Vocabulary of the properties.                                           *)
(***************************************************************************)
\* The statement about to run is `target <- func(...)`.
AtStatement(func) ==
    /\ pc = "execute"
    /\ ip <= Len(ast)
    /\ ast[ip].node = "VariableAssignment"
    /\ ast[ip].body.node = "FunctionApplication"
    /\ ast[ip].body.func = func

\* The statement that ran last was `target <- func(...)`, and it succeeded.
AfterStatement(func) ==
    /\ pc = "execute"
    /\ ip > 1
    /\ ip - 1 <= Len(ast)
    /\ ast[ip - 1].node = "VariableAssignment"
    /\ ast[ip - 1].body.node = "FunctionApplication"
    /\ ast[ip - 1].body.func = func

\* The step ran the statement at ip to its end without a panic.
StatementSucceeded == pc' = "execute" /\ ip' = ip + 1

\* The first argument of the statement at position p is an identifier bound on
\* the heap to a value with this tag.
ArgBoundTo(p, tag) ==
    /\ Len(ast[p].body.params) >= 1
    /\ ast[p].body.params[1].node = "Identifier"
    /\ ast[p].body.params[1].name \in DOMAIN memory.heap
    /\ memory.heap[ast[p].body.params[1].name].tag = tag

ArgName(p) == ast[p].body.params[1].name

\* Bits [from, to) of index i of a q-qubit register, most significant bit first,
\* as a number.
SliceOf(i, q, from, to) == (i \div Pow2(q - to)) % Pow2(to - from)

\* The basis state |0...0> of n qubits.
ZeroKet(n) == [i \in 1..Pow2(n) |-> <<IF i = 1 THEN COne ELSE CZero>>]

NonZeroRows(v) == {i \in 1..Len(v) : v[i][1] # CZero}

\* Every amplitude in memory lies in the modelled ring.
ExactArithmetic ==
    \A n \in DOMAIN memory.heap :
        memory.heap[n].tag = "Matrix" =>
            \A i \in 1..Len(memory.heap[n].m) :
                \A j \in 1..Len(memory.heap[n].m[i]) : memory.heap[n].m[i][j].k >= 0

(***************************************************************************)
(* C1: the program of test_select always ends with a measurement table in  *)
(* which RES2 carries the outcome "00" or "11".                            *)
(***************************************************************************)
C1_BellOutcomeCorrelated ==
    (entry = "run" /\ input = Text(Prog.Bell) /\ pc = "done") =>
        /\ result.kind = "Ok"
        /\ Word.RES2 \in DOMAIN result.val
        /\ result.val[Word.RES2][2] \in {<<"0", "0">>, <<"1", "1">>}

C1_Witness ==
    /\ entry = "run" /\ input = Text(Prog.Bell) /\ pc = "done"
    /\ result.kind = "Ok"
    /\ result.val[Word.RES2][2] = <<"1", "1">>

(***************************************************************************)
(* C2: MEASURE of a Selection (src, _, from, to) rebinds src on the heap   *)
(* to the collapsed vector of measure_partial_vec, stores that vector as   *)
(* the first component of the measurement entry, and changes no other heap *)
(* binding.                                                                *)
(***************************************************************************)
C2_MeasureSelectionCollapsesSource ==
    [][(AtStatement(Func.MEASURE) /\ ArgBoundTo(ip, "Selection") /\ StatementSucceeded) =>
          LET sel == memory.heap[ArgName(ip)]
              src == sel.key
          IN /\ DOMAIN memory'.heap = DOMAIN memory.heap
             /\ \A n \in DOMAIN memory.heap : n # src => memory'.heap[n] = memory.heap[n]
             /\ memory'.heap[src].tag = "Matrix"
             /\ memory'.measurements[ast[ip].name][1] = memory'.heap[src].m
             /\ \E u \in Draws :
                   memory'.heap[src].m
                       = measure_partial_vec(memory.heap[src].m, sel.from, sel.to, u).val
             /\ \E s \in 0..(Pow2(sel.to - sel.from) - 1) :
                   \A i \in 1..Len(memory.heap[src].m) :
                       memory'.heap[src].m[i] =
                           IF SliceOf(i - 1, Log2Floor(Len(memory.heap[src].m)),
                                      sel.from, sel.to) = s
                           THEN memory.heap[src].m[i]
                           ELSE <<CZero>>]_vars

\* A partial measurement has just collapsed a superposition on the heap.
C2_Witness ==
    /\ AfterStatement(Func.MEASURE)
    /\ ArgBoundTo(ip - 1, "Selection")
    /\ LET src == memory.heap[ArgName(ip - 1)].key
       IN /\ memory.heap[src].tag = "Matrix"
          /\ memory.measurements[ast[ip - 1].name][1] = memory.heap[src].m
          /\ Cardinality(NonZeroRows(memory.heap[src].m)) = 2
          /\ Len(memory.heap[src].m) = 4

(***************************************************************************)
(* C3: every outcome string of the measurement table is as long as the     *)
(* measured register: q for a whole vector, to - from for a Selection.     *)
(***************************************************************************)
C3_OutcomeLengthIsMeasuredWidth ==
    AfterStatement(Func.MEASURE) =>
        /\ ArgBoundTo(ip - 1, "Matrix") =>
              Len(memory.measurements[ast[ip - 1].name][2])
                  = Log2Floor(Len(memory.heap[ArgName(ip - 1)].m))
        /\ ArgBoundTo(ip - 1, "Selection") =>
              Len(memory.measurements[ast[ip - 1].name][2])
                  = memory.heap[ArgName(ip - 1)].to - memory.heap[ArgName(ip - 1)].from

(***************************************************************************)
(* C4: MEASURE of a vector leaves the heap as it was and records the       *)
(* vector it read, so repeated measurements sample the same vector.        *)
(***************************************************************************)
C4_MeasureVectorKeepsHeap ==
    [][(AtStatement(Func.MEASURE) /\ ArgBoundTo(ip, "Matrix") /\ StatementSucceeded) =>
          /\ memory'.heap = memory.heap
          /\ memory'.measurements[ast[ip].name][1] = memory.heap[ArgName(ip)].m]_vars

\* A superposition was measured and is still a superposition on the heap.
C4_Witness ==
    /\ AfterStatement(Func.MEASURE)
    /\ ArgBoundTo(ip - 1, "Matrix")
    /\ memory.measurements[ast[ip - 1].name][1] = memory.heap[ArgName(ip - 1)].m
    /\ Cardinality(NonZeroRows(memory.heap[ArgName(ip - 1)].m)) = 4

(***************************************************************************)
(* C5: INITIALIZE R n binds R to the column of 2^n rows with entry 0 equal *)
(* to 1 and the others 0, and a MEASURE R RES that follows records that    *)
(* column with the outcome of n characters '0', whatever the draw.         *)
(***************************************************************************)
InitArg(p) == ParseI32(ast[p].body.params[1].val)

IsInitLiteral(p) ==
    /\ Len(ast[p].body.params) = 1
    /\ ast[p].body.params[1].node = "Literal"
    /\ InitArg(p).kind = "Ok"
    /\ InitArg(p).val >= 0

C5_InitializeZeroKet ==
    [][/\ (AtStatement(Func.INITIALIZE) /\ IsInitLiteral(ip) /\ ast[ip].loc = HeapTag) =>
              /\ StatementSucceeded
              /\ memory'.heap[ast[ip].name] = MatrixVal(ZeroKet(InitArg(ip).val))
       /\ (/\ AtStatement(Func.MEASURE)
           /\ ip > 1
           /\ ast[ip - 1].node = "VariableAssignment"
           /\ ast[ip - 1].loc = HeapTag
           /\ ast[ip - 1].body.node = "FunctionApplication"
           /\ ast[ip - 1].body.func = Func.INITIALIZE
           /\ IsInitLiteral(ip - 1)
           /\ ast[ip].body.params = <<ASTIdentifier(ast[ip - 1].name)>>) =>
              /\ StatementSucceeded
              /\ memory'.measurements[ast[ip].name]
                    = <<ZeroKet(InitArg(ip - 1).val),
                        [p \in 1..InitArg(ip - 1).val |-> "0"]>>]_vars

\* INITIALIZE R 3 then MEASURE R RES has recorded the 8-row |000> with "000".
C5_Witness ==
    /\ AfterStatement(Func.MEASURE)
    /\ ip > 2
    /\ ast[ip - 2].node = "VariableAssignment"
    /\ ast[ip - 2].body.node = "FunctionApplication"
    /\ ast[ip - 2].body.func = Func.INITIALIZE
    /\ ast[ip - 2].body.params = <<ASTLiteral(Word.n3)>>
    /\ ast[ip - 1].body.params = <<ASTIdentifier(ast[ip - 2].name)>>
    /\ memory.measurements[ast[ip - 1].name] = <<ZeroKet(3), <<"0", "0", "0">> >>

(***************************************************************************)
(* C6: measure_partial_vec(v, from, to) returns a vector as long as v in   *)
(* which, for one bit pattern s of the slice [from, to), every index whose *)
(* slice differs from s holds 0 and every other index holds the amplitude  *)
(* of v; measuring all the qubits leaves at most one non-zero index.       *)
(***************************************************************************)
SimQubits == Log2Floor(Len(sim.v))

C6_PartialMeasureCollapse ==
    (/\ sim.op = "measure_partial_vec"
     /\ IsPow2(Len(sim.v))
     /\ 0 <= sim.from /\ sim.from <= sim.to /\ sim.to <= SimQubits) =>
        /\ sim.out.kind = "Ok"
        /\ Len(sim.out.val) = Len(sim.v)
        /\ \E s \in 0..(Pow2(sim.to - sim.from) - 1) :
              \A i \in 1..Len(sim.v) :
                  sim.out.val[i] =
                      IF SliceOf(i - 1, SimQubits, sim.from, sim.to) = s
                      THEN sim.v[i]
                      ELSE <<CZero>>
        /\ (sim.from = 0 /\ sim.to = SimQubits) =>
              Cardinality(NonZeroRows(sim.out.val)) <= 1

\* The low qubit of a two-qubit register with four non-zero amplitudes was
\* measured: two of them are left.
C6_Witness ==
    /\ sim.op = "measure_partial_vec"
    /\ Len(sim.v) = 4
    /\ Cardinality(NonZeroRows(sim.v)) = 4
    /\ sim.from = 1 /\ sim.to = 2
    /\ sim.out.kind = "Ok"
    /\ Cardinality(NonZeroRows(sim.out.val)) = 2

(***************************************************************************)
(* C7: for a qubit vector with a non-zero amplitude and any draw u,        *)
(* measure_vec returns the q-bit string, most significant bit first, of    *)
(* the smallest index whose cumulative probability exceeds u, and that     *)
(* index has a non-zero amplitude.                                         *)
(***************************************************************************)
C7_MeasureVecPicksNonZero ==
    (/\ sim.op = "measure_vec"
     /\ IsPow2(Len(sim.v))
     /\ NonZeroRows(sim.v) # {}) =>
        /\ sim.out.kind = "Ok"
        /\ \E k \in NonZeroRows(sim.v) :
              LET N == CumModSq(sim.v, Len(sim.v), 0)
              IN /\ sim.out.val =
                        [p \in 1..SimQubits |->
                            IF SliceOf(k - 1, SimQubits, p - 1, p) = 1 THEN "1" ELSE "0"]
                 /\ CumModSq(sim.v, k, 0) * DrawGrid > sim.u * N
                 /\ CumModSq(sim.v, k - 1, 0) * DrawGrid <= sim.u * N

\* The draw 0 on a vector whose first amplitudes are 0 returns a later index.
C7_Witness ==
    /\ sim.op = "measure_vec"
    /\ Len(sim.v) = 4
    /\ sim.v[1][1] = CZero /\ sim.v[2][1] = CZero /\ sim.v[3][1] # CZero
    /\ sim.u = 0
    /\ sim.out = Ok(<<"1", "0">>)

(***************************************************************************)
(* C8: a program with a line of no grammar shape, or with a built-in       *)
(* applied to arguments of the wrong kind, shape or range, makes run       *)
(* return an error value of kind SyntaxError (as ParseError or             *)
(* RuntimeError) and no measurement table.                                 *)
(***************************************************************************)
C8_MisuseReturnsSyntaxError ==
    (entry = "run" /\ pc = "done" /\ result.kind # "Ok") =>
        /\ result.kind = "Err"
        /\ result.err.variant \in {"ParseError", "RuntimeError"}
        /\ result.err.inner.variant \in {"SyntaxError", "NotImplemented"}

(***************************************************************************)
(* C9: applying an operator name that is no built-in (the VECTOR of a      *)
(* vector literal), or evaluating a G_ literal of no prefab shape, makes   *)
(* the executor return the error NotImplemented.                           *)
(***************************************************************************)
ASTUnknownPrefab ==
    <<VariableAssignment(Word.U, HeapTag,
         FunctionApplication(Func.TENSOR, <<ASTLiteral(Word.G_X), ASTLiteral(Prefab.G_H)>>))>>

ASTUnknownOperator ==
    <<VariableAssignment(Word.R, HeapTag, FunctionApplication(Func.VECTOR, <<ASTLiteral(Word.n1)>>))>>

UnknownOperatorOrPrefab ==
    \/ entry = "run" /\ input = Text(<<Ln.VectorInit>>)
    \/ entry = "execute_script" /\ ast \in {ASTUnknownPrefab, ASTUnknownOperator}

C9_UnknownIsNotImplemented ==
    (pc = "done" /\ UnknownOperatorOrPrefab) =>
        /\ result.kind = "Err"
        /\ \/ result.err = NotImplemented
           \/ result.err = RuntimeError(NotImplemented)

(***************************************************************************)
(* C10: SELECT(v, from, to) records Selection(name of v, Heap, from, to)   *)
(* under its target, leaving everything else as it was, exactly when v is  *)
(* a vector and 0 <= from <= to <= qubit_length(v); otherwise it fails     *)
(* with a SyntaxError and records nothing.                                 *)
(***************************************************************************)
SelectArgsEvaluate ==
    /\ Len(ast[ip].body.params) = 3
    /\ ast[ip].body.params[1].node = "Identifier"
    /\ ast[ip].body.params[1].name \in DOMAIN memory.heap
    /\ ast[ip].body.params[2].node = "Literal"
    /\ ast[ip].body.params[3].node = "Literal"
    /\ ParseI32(ast[ip].body.params[2].val).kind = "Ok"
    /\ ParseI32(ast[ip].body.params[3].val).kind = "Ok"

SelectFrom == ParseI32(ast[ip].body.params[2].val).val
SelectTo == ParseI32(ast[ip].body.params[3].val).val

SelectAllowed ==
    LET v == memory.heap[ArgName(ip)]
    IN /\ v.tag = "Matrix"
       /\ Len(v.m[1]) = 1
       /\ IsPow2(Len(v.m))
       /\ 0 <= SelectFrom /\ SelectFrom <= SelectTo /\ SelectTo <= Log2Floor(Len(v.m))

C10_SelectChecksRange ==
    [][(AtStatement(Func.SELECT) /\ ast[ip].loc = HeapTag /\ SelectArgsEvaluate) =>
          IF SelectAllowed
          THEN /\ StatementSucceeded
               /\ memory'.heap =
                     Insert(memory.heap, ast[ip].name,
                            SelectionVal(ArgName(ip), HeapTag, SelectFrom, SelectTo))
               /\ memory'.measurements = memory.measurements
          ELSE /\ ~StatementSucceeded
               /\ memory' = memory
               /\ result'.kind \in {"Err", "Panic"}
               /\ (result'.kind = "Err" => result'.err.inner.variant = "SyntaxError")
               /\ (result'.kind = "Panic" => result'.cause.variant = "SyntaxError")]_vars

(***************************************************************************)
(* C11: `B <- APPLY(A, B)` with A a matrix U: when B is bound to a vector  *)
(* v with rows(v) = cols(U) the statement succeeds, Hermitian U or not,    *)
(* rebinds B to U*v and leaves every other heap name as it was; when B is  *)
(* no vector or the dimensions differ it fails with a SyntaxError and the  *)
(* heap is unchanged.                                                      *)
(***************************************************************************)
\* The value the argument node evaluates to, as a result.
ArgValue(node) ==
    IF node.node = "Literal" THEN parse_literal(node.val)
    ELSE IF node.node = "Identifier" /\ node.name \in DOMAIN memory.heap
         THEN Ok(memory.heap[node.name])
    ELSE Err(SyntaxError("Variable not found"))

RECURSIVE RowTimesColumn(_, _, _)
RowTimesColumn(row, v, n) ==
    IF n = 0 THEN CZero
    ELSE C_add(RowTimesColumn(row, v, n - 1), C_mul(row[n], v[n][1]))

\* U*v, row by row.
MatrixTimesVector(U, v) == [i \in 1..Len(U) |-> <<RowTimesColumn(U[i], v, Len(v))>>]

ApplyArgsEvaluate ==
    /\ Len(ast[ip].body.params) = 2
    /\ ast[ip].body.params[2].node = "Identifier"
    /\ ast[ip].body.params[2].name = ast[ip].name
    /\ ast[ip].name \in DOMAIN memory.heap
    /\ ast[ip].loc = HeapTag
    /\ ArgValue(ast[ip].body.params[1]).kind = "Ok"
    /\ ArgValue(ast[ip].body.params[1]).val.tag = "Matrix"

ApplyOperator == ArgValue(ast[ip].body.params[1]).val.m

ApplyAllowed ==
    LET b == memory.heap[ast[ip].name]
    IN /\ b.tag = "Matrix"
       /\ Len(b.m[1]) = 1
       /\ Len(b.m) = Len(ApplyOperator[1])

FailedWithSyntaxError ==
    /\ ~StatementSucceeded
    /\ result'.kind \in {"Err", "Panic"}
    /\ (result'.kind = "Err" => result'.err.inner.variant = "SyntaxError")
    /\ (result'.kind = "Panic" => result'.cause.variant = "SyntaxError")

C11_ApplyRebindsVector ==
    [][(AtStatement(Func.APPLY) /\ ApplyArgsEvaluate) =>
          IF ApplyAllowed
          THEN /\ StatementSucceeded
               /\ memory'.heap =
                     Insert(memory.heap, ast[ip].name,
                            MatrixVal(MatrixTimesVector(ApplyOperator,
                                                        memory.heap[ast[ip].name].m)))
               /\ memory'.measurements = memory.measurements
          ELSE /\ FailedWithSyntaxError
               /\ memory' = memory]_vars

\* A phase shift, which is not Hermitian, has just been applied to a qubit in
\* superposition.
C11_Witness ==
    /\ AfterStatement(Func.APPLY)
    /\ ast[ip - 1].body.params[1] = ASTLiteral(Word.G_R_2)
    /\ ~is_hermitian(parse_literal(Word.G_R_2).val.m)
    /\ Word.R \in DOMAIN memory.heap
    /\ memory.heap[Word.R].m[2][1] \notin {CZero, COne, InvSqrt2}
    /\ memory.heap[Word.R].m[2][1].k >= 0

(***************************************************************************)
(* C12: CONCAT(A, B) of two matrices binds its target to the product A*B   *)
(* whenever size(A) = size(B), and fails with a SyntaxError exactly when   *)
(* the sizes differ.                                                       *)
(***************************************************************************)
ConcatArgsEvaluate ==
    /\ Len(ast[ip].body.params) = 2
    /\ ast[ip].loc = HeapTag
    /\ \A p \in 1..2 :
          /\ ArgValue(ast[ip].body.params[p]).kind = "Ok"
          /\ ArgValue(ast[ip].body.params[p]).val.tag = "Matrix"

ConcatLeft == ArgValue(ast[ip].body.params[1]).val.m
ConcatRight == ArgValue(ast[ip].body.params[2]).val.m

C12_ConcatProductOrSyntaxError ==
    [][(AtStatement(Func.CONCAT) /\ ConcatArgsEvaluate) =>
          IF Len(ConcatLeft) = Len(ConcatRight) /\ Len(ConcatLeft[1]) = Len(ConcatRight[1])
          THEN /\ StatementSucceeded
               /\ memory'.heap =
                     Insert(memory.heap, ast[ip].name,
                            MatrixVal(multiply(ConcatLeft, ConcatRight)))
          ELSE FailedWithSyntaxError]_vars

(***************************************************************************)
(* C13: parse yields one statement per non-blank line, in source order,    *)
(* and a blank line (empty, or made of spaces) inserted anywhere in the    *)
(* text leaves the parsed AST unchanged.                                   *)
(***************************************************************************)
IsWord(w) == w # <<>>

HasWord(line) == \E p \in 1..Len(line) : IsWord(line[p])

NonBlankLines(lines) == SelectSeq(lines, HasWord)

C13_BlankLinesDoNotChangeAST ==
    (entry = "parse" /\ sim.op = "padded") =>
        /\ sim.out = result
        /\ result.kind = "Ok" =>
              LET stmts == NonBlankLines(sim.lines)
              IN /\ Len(result.val) = Len(stmts)
                 /\ \A p \in 1..Len(stmts) :
                       parse(SourceText(<<stmts[p]>>)) = Ok(<<result.val[p]>>)

\* A line of spaces was inserted between the two statements of a program.
C13_Witness ==
    /\ entry = "parse"
    /\ sim.op = "padded"
    /\ Len(sim.lines) = 2
    /\ sim.padded = InsertLine(sim.lines, 1, <<<<>>, <<>>>>)
    /\ result.kind = "Ok"
    /\ Len(result.val) = 2
    /\ result.val[1] # result.val[2]
    /\ sim.out = result

(***************************************************************************)
(* C14: every statement parse produces is a VariableAssignment; its region *)
(* is Measurement exactly when the line's action is MEASURE, and then the  *)
(* target is the line's last token and the body MEASURE([first argument]); *)
(* INITIALIZE and SELECT target the token after the action, APPLY its      *)
(* second argument, INVERSE, TENSOR and CONCAT the identifier written      *)
(* before the action, all in region Heap.                                  *)
(***************************************************************************)
\* A single line of the parser's input was parsed into a statement.
LineParsed ==
    /\ entry = "parse"
    /\ pc \in {"parsed", "done"}
    /\ Len(sim.lines) = 1
    /\ result.kind = "Ok"
    /\ Len(result.val) = 1

LineWords == sim.lines[1]

\* The action of the line: its first word, or the word after the assigned name.
LineAction == IF LineWords[1] \in ActionWords THEN LineWords[1] ELSE LineWords[2]

C14_StatementTargets ==
    LineParsed =>
        LET st == result.val[1]
            w == LineWords
        IN /\ st.node = "VariableAssignment"
           /\ st.loc \in {HeapTag, MeasurementTag}
           /\ st.loc = MeasurementTag <=> LineAction = Func.MEASURE
           /\ LineAction = Func.MEASURE =>
                 /\ st.name = w[Len(w)]
                 /\ st.body \in {FunctionApplication(Func.MEASURE, <<ASTIdentifier(w[2])>>),
                                 FunctionApplication(Func.MEASURE, <<ASTLiteral(w[2])>>)}
           /\ LineAction \in {Func.INITIALIZE, Func.SELECT} => st.name = w[2]
           /\ LineAction = Func.APPLY => st.name = w[3]
           /\ LineAction \in {Func.INVERSE, Func.TENSOR, Func.CONCAT} => st.name = w[1]

(***************************************************************************)
(* C15: parse accepts a line only if its token kinds match a grammar       *)
(* shape: a three-token INITIALIZE line is Identifier then Literal, a      *)
(* MEASURE or APPLY line ends in an Identifier, a SELECT line is           *)
(* Identifier Identifier Literal Literal; a line with the right action but *)
(* other operand kinds is rejected, not turned into an assignment.         *)
(***************************************************************************)
C15_OperandKindsChecked ==
    LineParsed =>
        LET w == LineWords
            kind(p) == match_token_type(w[p])
        IN /\ (Len(w) = 3 /\ w[1] = Func.INITIALIZE) =>
                 (kind(2) = "Identifier" /\ kind(3) = "Literal")
           /\ w[1] \in {Func.MEASURE, Func.APPLY} =>
                 (Len(w) = 3 /\ kind(3) = "Identifier")
           /\ w[1] = Func.SELECT =>
                 /\ Len(w) = 5
                 /\ kind(2) = "Identifier" /\ kind(3) = "Identifier"
                 /\ kind(4) = "Literal" /\ kind(5) = "Literal"

(***************************************************************************)
(* C16: tokenize turns every word into one token whose kind is Action for  *)
(* the seven action names, Prefab for a word starting with G_, Literal     *)
(* exactly for a non-negative decimal integer and Identifier otherwise,    *)
(* and whose value is the word with its single quotes removed.             *)
(***************************************************************************)
IsDecimal(w) == w # <<>> /\ \A p \in 1..Len(w) : w[p] \in Digits

ClaimedKind(w) ==
    IF w \in ActionWords THEN "Action"
    ELSE IF Len(w) >= 2 /\ w[1] = "G" /\ w[2] = "_" THEN "Prefabs"
    ELSE IF IsDecimal(w) THEN "Literal"
    ELSE "Identifier"

ClaimedToken(w) ==
    IF w = Word.open THEN Token("OpenBracket", w)
    ELSE IF w = Word.close THEN Token("CloseBracket", w)
    ELSE Token(ClaimedKind(w), SelectSeq(w, IsNotQuote))

C16_WordClassification ==
    (entry = "parse" /\ sim.op = "tokenize" /\ Len(sim.lines) = 1) =>
        sim.tokens = [p \in 1..Len(LineWords) |-> ClaimedToken(LineWords[p])]

(***************************************************************************)
(* C17: find_factors.                                                      *)
(***************************************************************************)
\* The rule as documented: the half power a^(r/2) mod n decides.
ClaimedFactors(r, a, n) ==
    LET half == mod_power(a, r \div 2, n)
        g == gcd(half + 1, n)
    IN IF r % 2 # 0 \/ half = n - 1 \/ g = 1 \/ g = n
       THEN None
       ELSE SomePair(g, n \div g)

FindFactorsReturned == entry = "find_factors" /\ pc = "done"

\* C17: for all r, a, n, find_factors(r, a, n) rejects when r is odd, when
\* a^(r/2) mod n = n - 1, or when g = gcd((a^(r/2) mod n) + 1, n) is 1 or n,
\* and returns exactly (g, n/g) in every other case.
C17_FindFactorsRule ==
    FindFactorsReturned =>
        result = Ok(ClaimedFactors(input[1], input[2], input[3]))

(***************************************************************************)
(* C18, C19: shors.                                                        *)
(***************************************************************************)
ShorsReturned == entry = "shors" /\ pc = "done"

\* C18: for n = 15, 6, 14, shors(n) returns a pair (p, q) with p * q = n
\* and 1 < p < n, whatever base is drawn and whatever is measured.
C18_ShorsReturnsFactors ==
    ShorsReturned =>
        /\ result.kind = "Ok"
        /\ result.val.some
        /\ result.val.p * result.val.q = input
        /\ 1 < result.val.p
        /\ result.val.p < input

\* C19: when find_factors rejects the period found for the drawn base and
\* fewer than 10 bases have been drawn, shors draws a new base and tries
\* again: it does not return after a rejected draw.
C19_RejectedPeriodRedraws ==
    [][(/\ entry = "shors"
        /\ pc = "find_factors"
        /\ find_factors(sim.r, sim.a, input) = None
        /\ ip + 1 < 10)
       => (pc' = "pick_a" /\ ip' = ip + 1)]_vars

(***************************************************************************)
(* C20: period_in_ints.                                                    *)
(***************************************************************************)
SmallestOf(nbmrs) ==
    CHOOSE m \in {nbmrs[k] : k \in 1..Len(nbmrs)} : \A k \in 1..Len(nbmrs) : m <= nbmrs[k]

RECURSIVE GcdOfDifferences(_, _, _)
\* gcd of m_i - min over the samples from position i on, starting from g.
GcdOfDifferences(nbmrs, i, g) ==
    IF i > Len(nbmrs) THEN g
    ELSE GcdOfDifferences(nbmrs, i + 1,
                          gcd(g, nbmrs[i] - SmallestOf(nbmrs)))

\* C20: for every non-empty list of samples, the seven-sample lists of
\* find_period included, period_in_ints returns the gcd of the differences
\* m_i - min(m).
C20_PeriodIsGcdOfDifferences ==
    /\ (entry = "period_in_ints" /\ pc = "done") =>
           result = Ok(GcdOfDifferences(input, 1, 0))
    /\ (entry = "shors" /\ sim.op = "find_period") =>
           /\ "r" \in DOMAIN sim
           /\ sim.r = GcdOfDifferences(sim.nbmrs, 1, 0)

(***************************************************************************)
(* C21: find_period.                                                       *)
(***************************************************************************)
\* The multiplicative order of a modulo n, for a coprime to n.
OrderOf(a, n) ==
    CHOOSE r \in 1..n : /\ mod_power(a, r, n) = 1
                        /\ \A s \in 1..(r - 1) : mod_power(a, s, n) # 1

FindPeriodReturned == entry = "shors" /\ sim.op = "find_period"

\* C21: for a coprime to n, find_period(a, n) returns the multiplicative
\* order of a modulo n, whatever the partial measurement and the seven full
\* measurements of its program give.
C21_FindPeriodIsOrder ==
    FindPeriodReturned =>
        /\ "r" \in DOMAIN sim
        /\ sim.r = OrderOf(sim.a, input)

(***************************************************************************)
(* C22: unitary_modular.                                                   *)
(***************************************************************************)
\* ceil(log2(n + 1)): the least b with 2^b >= n + 1.
CeilLog2Succ(n) == CHOOSE b \in 0..n : Pow2(b) >= n + 1 /\ \A c \in 0..(b - 1) : Pow2(c) < n + 1

RECURSIVE PowMod(_, _, _)
\* a^x mod n, a residue of n.
PowMod(a, x, n) == IF x = 0 THEN 1 % n ELSE (PowMod(a, x - 1, n) * a) % n

UnitaryModularBuilt ==
    entry = "matrix" /\ input.op = "unitary_modular" /\ pc \in {"built", "done"}

\* C22: unitary_modular(a, n) is a square matrix of dimension 2^(3 * nbits),
\* nbits = ceil(log2(n + 1)), whose entry at row x * 2^nbits + (a^x mod n),
\* column x * 2^nbits is 1 for every x below 2^(2 * nbits) and whose other
\* entries are 0; on a vector supported on the indices x * 2^nbits it moves
\* the amplitude of each x to the index x * 2^nbits + (a^x mod n).
C22_UnitaryModularEntries ==
    UnitaryModularBuilt =>
        LET m == result.val
            nrep == Pow2(CeilLog2Succ(input.n))
            D == nrep * nrep * nrep
            Target(x) == x * nrep + PowMod(input.a, x, input.n)
        IN /\ Len(m) = D
           /\ \A i \in 0..(D - 1) :
                 /\ Len(m[i + 1]) = D
                 /\ \A j \in 0..(D - 1) :
                       m[i + 1][j + 1] =
                           IF j % nrep = 0 /\ i = Target(j \div nrep) THEN COne ELSE CZero
           /\ sim.op = "apply" =>
                 \A i \in 0..(D - 1) :
                     sim.out[i + 1] =
                         IF \E x \in 0..(nrep * nrep - 1) : i = Target(x)
                         THEN sim.vec[(i \div nrep) * nrep + 1]
                         ELSE <<CZero>>

(***************************************************************************)
(* C23: the gate constructors are unitary.                                 *)
(***************************************************************************)
IsUnitaryReturned == entry = "matrix" /\ input.op = "is_unitary" /\ pc = "done"

\* C23: every operator a gate constructor returns (hadamard, cnot,
\* phase_shift, identity, unitary_modular, quantum_fourier) is a square
\* matrix U with U * adjoint(U) = I.
C23_GatesAreUnitary ==
    IsUnitaryReturned =>
        /\ Len(sim.m) = Len(sim.m[1])
        /\ result = Ok(TRUE)

(***************************************************************************)
(* C24: quantum_fourier.                                                   *)
(***************************************************************************)
RECURSIVE CPow(_, _)
CPow(c, e) == IF e = 0 THEN COne ELSE C_mul(CPow(c, e - 1), c)

\* D^(-1/2) * w^(i * j mod D) for D = 2^k and w = e^(2 * pi * i / D).
FourierEntry(k, i, j) ==
    C_mul([re |-> 1, im |-> 0, k |-> k],
          CPow(CisPiOver(Pow2(k - 1)), (i * j) % Pow2(k)))

QuantumFourierReturned == entry = "matrix" /\ input.op = "quantum_fourier" /\ pc = "done"

\* C24: for every k >= 1 and D = 2^k, quantum_fourier(k) is the D x D matrix
\* whose entry (i, j) is D^(-1/2) times w^(i * j), w the primitive D-th root
\* of unity e^(2 * pi * i / D).
C24_QuantumFourierEntries ==
    QuantumFourierReturned =>
        LET m == result.val
            D == Pow2(input.k)
        IN /\ Len(m) = D
           /\ \A i \in 0..(D - 1) :
                 /\ Len(m[i + 1]) = D
                 /\ \A j \in 0..(D - 1) : m[i + 1][j + 1] = FourierEntry(input.k, i, j)

(***************************************************************************)
(* C25: tensor.                                                            *)
(***************************************************************************)
\* C25: tensor(A, B) has rows(A) * rows(B) rows and cols(A) * cols(B)
\* columns, its entry at row i * rB + k, column j * cB + l is
\* A[i][j] * B[k][l], and A and B are left as they were.
C25_TensorIsKronecker ==
    [][(entry = "matrix" /\ input.op = "tensor" /\ pc = "call") =>
          LET A == input.A
              B == input.B
              R == result'.val
          IN /\ input' = input
             /\ result'.kind = "Ok"
             /\ Len(R) = Len(A) * Len(B)
             /\ \A r \in 1..Len(R) : Len(R[r]) = Len(A[1]) * Len(B[1])
             /\ \A i \in 0..(Len(A) - 1), j \in 0..(Len(A[1]) - 1),
                   k \in 0..(Len(B) - 1), l \in 0..(Len(B[1]) - 1) :
                    R[i * Len(B) + k + 1][j * Len(B[1]) + l + 1]
                        = C_mul(A[i + 1][j + 1], B[k + 1][l + 1])]_vars

\* The first product of test_matrix_tensor has been taken.
C25_Witness ==
    /\ entry = "matrix"
    /\ input.op = "tensor"
    /\ pc = "done"
    /\ input.A = << <<CReal(1)>>, <<CReal(2)>> >>
    /\ input.B = << <<CReal(5)>>, <<CReal(6)>>, <<CReal(7)>> >>
    /\ result = Ok(<< <<CReal(5)>>, <<CReal(6)>>, <<CReal(7)>>,
                      <<CReal(10)>>, <<CReal(12)>>, <<CReal(14)>> >>)

(***************************************************************************)
(* C26: matrix addition.                                                   *)
(***************************************************************************)
AddReturned == entry = "matrix" /\ input.op = "add" /\ pc = "done"

SameShape(A, B) == Len(A) = Len(B) /\ Len(A[1]) = Len(B[1])

\* C26: for A and B of the same shape, square or not, A + B succeeds and is
\* the matrix of elementwise sums; addition fails only when the shapes
\* differ.
C26_AddIsElementwise ==
    AddReturned =>
        IF SameShape(input.A, input.B)
        THEN result = Ok([i \in 1..Len(input.A) |->
                            [j \in 1..Len(input.A[1]) |->
                                C_add(input.A[i][j], input.B[i][j])]])
        ELSE result.kind = "Panic"

(***************************************************************************)
(* C27: heap vectors have a power of two of rows.                          *)
(***************************************************************************)
HeapVectors == {n \in DOMAIN memory.heap :
                   memory.heap[n].tag = "Matrix" /\ Len(memory.heap[n].m[1]) = 1}

IsPowerOfTwo(n) == \E q \in 0..n : Pow2(q) = n

QbitLengthRejection ==
    Panic(PanicMsg("Invalid input for MEASURE, should be a vector of size power of two"))

\* C27: after any sequence of successfully executed statements every heap
\* value that is a one-column matrix has a power of two of rows, so a
\* MEASURE or SELECT whose argument is bound to such a vector never ends in
\* the rejection of qbit_length.
C27_HeapVectorsArePowersOfTwo ==
    [][/\ \A n \in HeapVectors' : IsPowerOfTwo(Len(memory'.heap[n].m))
       /\ ((AtStatement(Func.MEASURE) \/ AtStatement(Func.SELECT))
              /\ ArgBoundTo(ip, "Matrix") /\ ArgName(ip) \in HeapVectors)
             => result' # QbitLengthRejection]_vars

\* A vector built by TENSOR from two registers has just been measured.
C27_Witness ==
    /\ entry = "run" /\ input = Text(Prog.TensorVectors)
    /\ AfterStatement(Func.MEASURE)
    /\ ArgBoundTo(ip - 1, "Matrix")
    /\ ArgName(ip - 1) \in HeapVectors
    /\ Len(memory.heap[Word.V].m) = 4
    /\ Word.RES \in DOMAIN memory.measurements

(***************************************************************************)
(* C28: MEASURE of a Selection finds its source still a long enough vector. *)
(***************************************************************************)
\* The Selection the MEASURE at ip is about to read.
SelectionAtIp == memory.heap[ArgName(ip)]

\* The source of a Selection is bound on the heap to a vector of at least
\* sel.to qubits.
SourceStillCovers(sel) ==
    /\ sel.key \in DOMAIN memory.heap
    /\ memory.heap[sel.key].tag = "Matrix"
    /\ Len(memory.heap[sel.key].m[1]) = 1
    /\ IsPowerOfTwo(Len(memory.heap[sel.key].m))
    /\ Pow2(sel.to) <= Len(memory.heap[sel.key].m)

\* C28: whenever MEASURE is executed on a Selection (src, from, to), src is
\* still bound on the heap to a vector of qubit length at least to, whatever
\* ran since the SELECT, and the statement does not fail.  Only Selections
\* over a range 0 <= from <= to are looked at.
C28_SelectionSourceStaysValid ==
    [][(AtStatement(Func.MEASURE) /\ ArgBoundTo(ip, "Selection")
           /\ 0 <= SelectionAtIp.from /\ SelectionAtIp.from <= SelectionAtIp.to)
          => (SourceStillCovers(SelectionAtIp) /\ StatementSucceeded)]_vars

(***************************************************************************)
(* C29: a partial measurement leaves a state, and its outcome is carried.  *)
(***************************************************************************)
\* measure_partial_vec was called on a qubit vector with a non-zero amplitude
\* and a range 0 <= from <= to <= q.
PartialMeasured ==
    /\ sim.op = "measure_partial_vec"
    /\ IsPowerOfTwo(Len(sim.v))
    /\ NonZeroRows(sim.v) # {}
    /\ 0 <= sim.from /\ sim.from <= sim.to /\ Pow2(sim.to) <= Len(sim.v)

\* The outcome s of that call: the measurement of the compact vector.
ChosenOutcome ==
    measure_vec(PartialOptions(sim.v, Log2Floor(Len(sim.v)), sim.from, sim.to), sim.u).val

\* The indices of v whose bits [from, to) spell the outcome.
CarriersOf(s) ==
    {i \in 1..Len(sim.v) :
        Slice(index_to_binary_string(i - 1, Log2Floor(Len(sim.v))), sim.from, sim.to) = s}

\* C29: measure_partial_vec of a vector with a non-zero amplitude returns a
\* vector with a non-zero amplitude, and its outcome is the bit pattern of an
\* index whose amplitude in v is not zero, for every range and draw.
C29_PartialMeasurementKeepsAState ==
    PartialMeasured =>
        /\ sim.out.kind = "Ok"
        /\ NonZeroRows(sim.out.val) # {}
        /\ CarriersOf(ChosenOutcome) \cap NonZeroRows(sim.v) # {}

(***************************************************************************)
(* C30: APPLY keeps the number of rows of the register.                    *)
(***************************************************************************)
\* The statement at ip is APPLY U R with R bound on the heap to a matrix.
AtApplyToRegister ==
    /\ AtStatement(Func.APPLY)
    /\ Len(ast[ip].body.params) = 2
    /\ ast[ip].body.params[2].node = "Identifier"
    /\ ast[ip].body.params[2].name \in DOMAIN memory.heap
    /\ memory.heap[ast[ip].body.params[2].name].tag = "Matrix"

=============================================================================
